---------------------------- MODULE Spec2Model ----------------------------
(***************************************************************************)
(* Model of the allegoryjs runtime core: the entity store (src/src/ecs.ts) *)
(* and the intent pipeline / auction (src/unnamed/part_003, the current    *)
(* intent-pipeline.ts).                                                    *)
(*                                                                         *)
(* Conventions                                                             *)
(*  - A JavaScript object with optional properties is a TLA+ record whose  *)
(*    DOMAIN holds exactly the properties that are present, so that        *)
(*    `concern.ids` being absent and being [] are different values.        *)
(*  - Scores are kept in halves (every score of the source is a multiple   *)
(*    of 0.5): 100 is 2 * 100, 2.5 is 5 and the sentinel -1 is -(2 * 1).   *)
(*    Sums and comparisons are unchanged by the scaling.                   *)
(*  - A string that the code splits (a props matcher "Component.field") is *)
(*    a sequence of tokens, each "." or a dot-free chunk.                  *)
(*  - One action is one synchronous run of JavaScript: from a call or the  *)
(*    resolution of an awaited promise to the next await or return.        *)
(***************************************************************************)
EXTENDS Integers, Sequences, FiniteSets, TLC

\* ------------------------------------------------------------------ bounds
\* Entities the store may create in a run (createEntity is guarded by it).
MaxEntities == 2
\* Commands the caller may hand to handleCommand in a run.
MaxCommands == 1
\* ratifyLaw / revokeLaw calls in a run.
MaxRegistryOps == 4

\* --------------------------------------------------------------- constants
\* IntentPipelineConfig (in halves, see above).
biddingIdMatchPrice == 2 * 100
biddingComponentMatchPrice == 2 * 10
biddingPropsMatchPrice == 2 * 20
biddingTagsMatchPrice == 5
\* `return -1` of #calculateConcernSpecificity.
DISQUALIFIED == -(2 * 1)

\* LawLayer
Core == 0
StdLib == 1
Domain == 2
Instance == 3

\* ContributionStatus
PASS == "PASS"
REJECTED == "REJECTED"
COMPLETED == "COMPLETED"

\* JavaScript's undefined, where a value of record shape may be absent.
undefined == [undefined |-> TRUE]

VARIABLES
    ecs,        \* the ECS instance: nextEntityId, activeEntities, components, prettyIdMap
    laws,       \* IntentPipeline.#laws: a Map, kept as the sequence of its values in insertion order
    firstSeen,  \* history: law names in the order each was first ratified
    insertedAt, \* history: per law name, the number of the ratifyLaw call that last added it while absent
    regOps,     \* history: number of ratifyLaw/revokeLaw calls so far
    commands,   \* activations of handleCommand, in call order
    auctions,   \* activations of #auctionIntent, in call order
    promises,   \* promises of law.apply calls that have not resolved yet
    emitted,    \* narrations handed to the emitter, in order
    probe,      \* the last #calculateBid evaluation: its inputs and its result
    call        \* the last call a client made on the ECS instance: its arguments, the store before it, its outcome

vars == <<ecs, laws, firstSeen, insertedAt, regOps, commands, auctions, promises, emitted, probe, call>>

registryVars == <<laws, firstSeen, insertedAt, regOps>>
pipelineVars == <<commands, auctions, promises, emitted>>

\* ------------------------------------------------------------- sequences
RECURSIVE SeqSum(_)
SeqSum(s) == IF s = <<>> THEN 0 ELSE Head(s) + SeqSum(Tail(s))

Range(s) == {s[i] : i \in DOMAIN s}

\* Array.prototype.includes
includes(s, x) == \E i \in DOMAIN s : s[i] = x

\* Array.prototype.splice(index, 0, x) on a copy: x inserted before position index (0-based).
InsertAt(s, index, x) == SubSeq(s, 1, index) \o <<x>> \o SubSeq(s, index + 1, Len(s))

\* String.prototype.split('.') on a token sequence.
RECURSIVE split(_)
split(str) ==
    IF str = <<>> THEN <<"">>
    ELSE LET rest == split(Tail(str))
         IN  IF Head(str) = "." THEN <<"">> \o rest
             ELSE <<Head(str) \o Head(rest)>> \o Tail(rest)

\* ===================================================================== ECS
\* new ECS(): the two system component stores, no entity.
NewECS ==
    [ nextEntityId   |-> 1,
      activeEntities |-> {},
      components     |-> [c \in {"Tags", "Meta"} |-> <<>>],
      prettyIdMap    |-> <<>> ]

\* A Map as a function: set and delete of one key.
MapSet(m, k, v) == [x \in DOMAIN m \cup {k} |-> IF x = k THEN v ELSE m[x]]
MapDelete(m, k) == [x \in DOMAIN m \ {k} |-> m[x]]

isComponent(name) == name \in DOMAIN ecs.components

\* defineComponent: the caller sees the throw when the name exists.
\* Mutant: a registered name is defined again.
defineComponentThrows_Never(E, name) == FALSE

defineComponentThrows(E, name) == name \in DOMAIN E.components
defineComponent(E, name) ==
    [E EXCEPT !.components = MapSet(@, name, <<>>)]

\* Mutant: any name is taken.
setComponentOnEntityThrows_Never(E, name) == FALSE

setComponentOnEntityThrows(E, name) == name \notin DOMAIN E.components
\* Mutant: the fields of the previous data that `data` lacks are kept.
setComponentOnEntity_Merges(E, entity, name, data) ==
    LET old == IF entity \in DOMAIN E.components[name] THEN E.components[name][entity] ELSE <<>>
    IN  [E EXCEPT !.components[name] =
            MapSet(@, entity, [f \in DOMAIN old \cup DOMAIN data |->
                                    IF f \in DOMAIN data THEN data[f] ELSE old[f]])]

setComponentOnEntity(E, entity, name, data) ==
    [E EXCEPT !.components[name] = MapSet(@, entity, data)]

\* createEntity(metaId?): args is [] or [metaId |-> ...]; now is Date.now().
createEntityThrows(E, args) ==
    /\ "metaId" \in DOMAIN args
    /\ args.metaId # ""
    /\ args.metaId \in DOMAIN E.prettyIdMap
\* Mutant: the lowest id that is not active is handed out.
createEntity_ReusesId(E, args, now) ==
    LET id == CHOOSE i \in 1..E.nextEntityId :
                /\ i \notin E.activeEntities
                /\ \A j \in 1..(i - 1) : j \in E.activeEntities
        E1 == [E EXCEPT !.nextEntityId = IF id = @ THEN @ + 1 ELSE @,
                        !.activeEntities = @ \cup {id}]
        E2 == setComponentOnEntity(E1, id, "Tags", [list |-> {}])
    IN  setComponentOnEntity(E2, id, "Meta",
            [ name    |-> "Entity_" \o ToString(id),
              id      |-> IF "metaId" \in DOMAIN args /\ args.metaId # ""
                          THEN args.metaId
                          ELSE "entity_" \o ToString(id),
              created |-> now ])

createEntity(E, args, now) ==
    LET id == E.nextEntityId
        E1 == [E EXCEPT !.nextEntityId = id + 1,
                        !.activeEntities = @ \cup {id}]
        E2 == setComponentOnEntity(E1, id, "Tags", [list |-> {}])
    IN  setComponentOnEntity(E2, id, "Meta",
            [ name    |-> "Entity_" \o ToString(id),
              id      |-> IF "metaId" \in DOMAIN args /\ args.metaId # ""
                          THEN args.metaId
                          ELSE "entity_" \o ToString(id),
              created |-> now ])

\* { ...store.get(entity), ...data }
Spread(old, data) ==
    [f \in DOMAIN old \cup DOMAIN data |-> IF f \in DOMAIN data THEN data[f] ELSE old[f]]

\* Mutant: the previous data is dropped.
updateComponentData_Replaces(E, entity, name, data) ==
    [E EXCEPT !.components[name] = MapSet(@, entity, data)]

updateComponentData(E, entity, name, data) ==
    LET store == E.components[name]
        old   == IF entity \in DOMAIN store THEN store[entity] ELSE <<>>
    IN  [E EXCEPT !.components[name] = MapSet(@, entity, Spread(old, data))]

removeComponentFromEntity(E, entity, componentType) ==
    IF componentType \in DOMAIN E.components
    THEN [E EXCEPT !.components[componentType] = MapDelete(@, entity)]
    ELSE E

\* Mutant: the Meta store is skipped.
destroyEntity_KeepsMeta(E, entity) ==
    [E EXCEPT !.components = [c \in DOMAIN @ |-> IF c = "Meta" THEN @[c] ELSE MapDelete(@[c], entity)],
              !.activeEntities = @ \ {entity}]

\* destroyEntity: the entity leaves every component store and the active set.
destroyEntity(E, entity) ==
    [E EXCEPT !.components = [c \in DOMAIN @ |-> MapDelete(@[c], entity)],
              !.activeEntities = @ \ {entity}]

addTagToEntity(E, entity, tag) ==
    IF entity \in DOMAIN E.components["Tags"]
    THEN [E EXCEPT !.components["Tags"][entity].list = @ \cup {tag}]
    ELSE E

\* ------------------------------------------------------------ ECS reads
getEntityComponentData(entity, name) ==
    IF name \in DOMAIN ecs.components /\ entity \in DOMAIN ecs.components[name]
    THEN ecs.components[name][entity]
    ELSE undefined

entityHasComponent(entity, componentType) ==
    /\ componentType \in DOMAIN ecs.components
    /\ entity \in DOMAIN ecs.components[componentType]

entityHasTag(entity, tag) ==
    LET tagData == getEntityComponentData(entity, "Tags")
    IN  IF tagData = undefined THEN FALSE ELSE tag \in tagData.list

\* getEntityByPrettyId(id) === entity
prettyIdIs(id, entity) ==
    /\ id \in DOMAIN ecs.prettyIdMap
    /\ ecs.prettyIdMap[id] = entity

\* ------------------------------------------------- ECS reads: queries
\* The keys of #components in insertion order: the two bootstrapped stores, then
\* the one user component of this model.
componentKeys(E) == SelectSeq(<<"Tags", "Meta", "Tool">>, LAMBDA c : c \in DOMAIN E.components)

getComponentsOnEntity(entity) ==
    SelectSeq(componentKeys(ecs), LAMBDA c : entityHasComponent(entity, c))

\* (this.#components.get(type)?.size ?? 0)
storeSize(type) ==
    IF type \in DOMAIN ecs.components THEN Cardinality(DOMAIN ecs.components[type]) ELSE 0

\* componentTypes.sort(by store size): stable.
RECURSIVE insertType(_, _)
insertType(sorted, type) ==
    IF sorted = <<>> THEN <<type>>
    ELSE IF storeSize(Head(sorted)) - storeSize(type) > 0 THEN <<type>> \o sorted
    ELSE <<Head(sorted)>> \o insertType(Tail(sorted), type)

RECURSIVE sortTypes(_)
sortTypes(componentTypes) ==
    IF componentTypes = <<>> THEN <<>>
    ELSE insertType(sortTypes(SubSeq(componentTypes, 1, Len(componentTypes) - 1)),
                    componentTypes[Len(componentTypes)])

\* smallestStore.keys(), taken in ascending entity order (the order of the keys is
\* not kept by this model; no property below depends on it).
RECURSIVE storeKeys(_, _)
storeKeys(store, from) ==
    IF \A e \in DOMAIN store : e < from THEN <<>>
    ELSE (IF from \in DOMAIN store THEN <<from>> ELSE <<>>) \o storeKeys(store, from + 1)

\* Mutant: one other listed component is enough.
hasAll_Some(entity, rest) ==
    rest = <<>> \/ \E i \in DOMAIN rest : entityHasComponent(entity, rest[i])

\* rest.every(type => this.entityHasComponent(entity, type))
hasAll(entity, rest) == \A i \in DOMAIN rest : entityHasComponent(entity, rest[i])

entitiesOf(smallestType, rest) ==
    IF smallestType = "" THEN <<>>
    ELSE IF smallestType \notin DOMAIN ecs.components \/ storeSize(smallestType) = 0 THEN <<>>
    ELSE SelectSeq(storeKeys(ecs.components[smallestType], 1), LAMBDA e : hasAll(e, rest))

firstAndRest(sortedTypes) == entitiesOf(Head(sortedTypes), Tail(sortedTypes))

getEntitiesByComponents(componentTypes) ==
    IF Len(componentTypes) = 0 THEN <<>> ELSE firstAndRest(sortTypes(componentTypes))

\* getEntityByPrettyId(id): the entity, wrapped, or undefined.
getEntityByPrettyId(id) ==
    IF id \in DOMAIN ecs.prettyIdMap THEN [value |-> ecs.prettyIdMap[id]] ELSE undefined

\* --------------------------------------------------- objects and copies
\* A reference to component data as a client holds it: the value it reads, whether
\* the object is frozen, the store slots <<name, entity>> whose object it is, and
\* the store slots with which it shares its nested collections (Tags.list).
stored(name, entity) ==
    [ value       |-> ecs.components[name][entity],
      frozen      |-> FALSE,
      object      |-> {<<name, entity>>},
      collections |-> {<<name, entity>>} ]

\* Mutant: a frozen shallow copy, the nested collections shared with the original.
deepFreeze_Shallow(input) ==
    [ value |-> input.value, frozen |-> TRUE, object |-> {}, collections |-> input.collections ]

\* deepFreeze: a frozen copy of the object and of everything nested in it.
deepFreeze(input) ==
    [ value |-> input.value, frozen |-> TRUE, object |-> {}, collections |-> {} ]

\* getEntityComponentData as a client receives it.
getEntityComponentDataCopy(entity, name) ==
    IF name \in DOMAIN ecs.components /\ entity \in DOMAIN ecs.components[name]
    THEN deepFreeze(stored(name, entity))
    ELSE undefined

\* `object.list.add(tag)`: Set.prototype.add works on a frozen Set; every store slot
\* that shares the collection sees the tag.
addToList(E, object, tag) ==
    [E EXCEPT !.components =
        [c \in DOMAIN @ |-> [e \in DOMAIN @[c] |->
            IF <<c, e>> \in object.collections /\ "list" \in DOMAIN @[c][e]
            THEN [@[c][e] EXCEPT !.list = @ \cup {tag}]
            ELSE @[c][e]]]]

\* `object[field] = value`: ignored on a frozen object; every store slot whose
\* object it is sees the field.
assignField(E, object, field, value) ==
    IF object.frozen THEN E
    ELSE [E EXCEPT !.components =
            [c \in DOMAIN @ |-> [e \in DOMAIN @[c] |->
                IF <<c, e>> \in object.object
                THEN Spread(@[c][e], [f \in {field} |-> value])
                ELSE @[c][e]]]]

\* The messages of the errors thrown to the caller.
UnknownComponentType(name) == <<"Unknown component type: ", name>>
ComponentAlreadyExists(name) == <<"Component named ", name, " already exists">>
CannotRegisterPrettyId(metaId) == <<"Cannot register new entity with pretty ID ", metaId>>

updateComponentDataThrows(E, name) == name \notin DOMAIN E.components

\* Mutant: the facade also hands out destroyEntity.
getReadonlyFacade_WithDestroy ==
    { "entityHasTag", "entityHasComponent", "getEntitiesByComponents",
      "getComponentsOnEntity", "getEntityComponentData", "destroyEntity" }

\* The methods of the object getReadonlyFacade returns.
getReadonlyFacade ==
    { "entityHasTag", "entityHasComponent", "getEntitiesByComponents",
      "getComponentsOnEntity", "getEntityComponentData" }

\* ============================================================ scoring
null == [null |-> TRUE]

\* #calculateConcernSpecificity(entity, concern): a score, or DISQUALIFIED.
idScore(entity, concern) ==
    IF "ids" \in DOMAIN concern
    THEN SeqSum([i \in DOMAIN concern.ids |->
            IF prettyIdIs(concern.ids[i], entity) THEN biddingIdMatchPrice ELSE 0])
    ELSE 0

componentScore(entity, concern) ==
    IF "components" \in DOMAIN concern
    THEN SeqSum([i \in DOMAIN concern.components |->
            IF entityHasComponent(entity, concern.components[i])
            THEN biddingComponentMatchPrice ELSE 0])
    ELSE 0

\* Mutant: a matching props entry is paid at the component price.
propEntryScore_ComponentPrice(entity, entry) ==
    LET parts         == split(entry.prop)
        componentData == getEntityComponentData(entity, parts[1])
    IN  IF \/ Len(parts) < 2
           \/ componentData = undefined
           \/ parts[2] \notin DOMAIN componentData
           \/ componentData[parts[2]] # entry.value
        THEN 0
        ELSE biddingComponentMatchPrice

\* Mutant: an entry without component or property name is counted as a match.
propEntryScore_MalformedCounts(entity, entry) ==
    LET parts         == split(entry.prop)
        componentName == parts[1]
        property      == IF Len(parts) >= 2 THEN parts[2] ELSE ""
        componentData == getEntityComponentData(entity, componentName)
    IN  IF componentName = "" \/ property = "" THEN biddingPropsMatchPrice
        ELSE IF ~isComponent(componentName) THEN 0
        ELSE IF \/ componentData = undefined
                \/ property \notin DOMAIN componentData
                \/ componentData[property] # entry.value
             THEN 0
        ELSE biddingPropsMatchPrice

\* One step of the props reduce: what the entry adds to acc.
propEntryScore(entity, entry) ==
    LET parts         == split(entry.prop)
        componentName == parts[1]
        property      == IF Len(parts) >= 2 THEN parts[2] ELSE ""
        componentData == getEntityComponentData(entity, componentName)
    IN  IF componentName = "" \/ property = "" THEN 0
        ELSE IF ~isComponent(componentName) THEN 0
        ELSE IF \/ componentData = undefined
                \/ property \notin DOMAIN componentData
                \/ componentData[property] # entry.value
             THEN 0
        ELSE biddingPropsMatchPrice

propsScore(entity, concern) ==
    IF "props" \in DOMAIN concern
    THEN SeqSum([i \in DOMAIN concern.props |-> propEntryScore(entity, concern.props[i])])
    ELSE 0

tagsScore(entity, concern) ==
    IF "tags" \in DOMAIN concern
    THEN SeqSum([i \in DOMAIN concern.tags |->
            IF entityHasTag(entity, concern.tags[i]) THEN biddingTagsMatchPrice ELSE 0])
    ELSE 0

\* Mutant: the tags category is summed but its total failure is not checked.
calculateConcernSpecificity_NoTagsGuard(entity, concern) ==
    IF "ids" \in DOMAIN concern /\ idScore(entity, concern) = 0
        THEN DISQUALIFIED
    ELSE IF /\ "components" \in DOMAIN concern
            /\ Len(concern.components) # 0
            /\ componentScore(entity, concern) = 0
        THEN DISQUALIFIED
    ELSE IF /\ "props" \in DOMAIN concern
            /\ Len(concern.props) # 0
            /\ propsScore(entity, concern) = 0
        THEN DISQUALIFIED
    ELSE componentScore(entity, concern) + propsScore(entity, concern)
            + tagsScore(entity, concern) + idScore(entity, concern)

\* Mutant: the ids guard asks for a non-empty list, as the other three do.
calculateConcernSpecificity_IdsLength(entity, concern) ==
    IF "ids" \in DOMAIN concern /\ Len(concern.ids) # 0 /\ idScore(entity, concern) = 0
        THEN DISQUALIFIED
    ELSE IF /\ "components" \in DOMAIN concern
            /\ Len(concern.components) # 0
            /\ componentScore(entity, concern) = 0
        THEN DISQUALIFIED
    ELSE IF /\ "props" \in DOMAIN concern
            /\ Len(concern.props) # 0
            /\ propsScore(entity, concern) = 0
        THEN DISQUALIFIED
    ELSE IF /\ "tags" \in DOMAIN concern
            /\ Len(concern.tags) # 0
            /\ tagsScore(entity, concern) = 0
        THEN DISQUALIFIED
    ELSE componentScore(entity, concern) + propsScore(entity, concern)
            + tagsScore(entity, concern) + idScore(entity, concern)

\* Mutant: the props category is summed but its total failure is not checked.
calculateConcernSpecificity_NoPropsGuard(entity, concern) ==
    IF "ids" \in DOMAIN concern /\ idScore(entity, concern) = 0
        THEN DISQUALIFIED
    ELSE IF /\ "components" \in DOMAIN concern
            /\ Len(concern.components) # 0
            /\ componentScore(entity, concern) = 0
        THEN DISQUALIFIED
    ELSE IF /\ "tags" \in DOMAIN concern
            /\ Len(concern.tags) # 0
            /\ tagsScore(entity, concern) = 0
        THEN DISQUALIFIED
    ELSE componentScore(entity, concern) + propsScore(entity, concern)
            + tagsScore(entity, concern) + idScore(entity, concern)

calculateConcernSpecificity(entity, concern) ==
    IF "ids" \in DOMAIN concern /\ idScore(entity, concern) = 0
        THEN DISQUALIFIED
    ELSE IF /\ "components" \in DOMAIN concern
            /\ Len(concern.components) # 0
            /\ componentScore(entity, concern) = 0
        THEN DISQUALIFIED
    ELSE IF /\ "props" \in DOMAIN concern
            /\ Len(concern.props) # 0
            /\ propsScore(entity, concern) = 0
        THEN DISQUALIFIED
    ELSE IF /\ "tags" \in DOMAIN concern
            /\ Len(concern.tags) # 0
            /\ tagsScore(entity, concern) = 0
        THEN DISQUALIFIED
    ELSE componentScore(entity, concern) + propsScore(entity, concern)
            + tagsScore(entity, concern) + idScore(entity, concern)

\* The permutation list of #calculateBid, in the order the loops build it:
\* each entity in turn is spliced into every position of every permutation so far.
RECURSIVE Flatten(_)
Flatten(ss) == IF ss = <<>> THEN <<>> ELSE Head(ss) \o Flatten(Tail(ss))

RECURSIVE permutationsUpTo(_, _)
permutationsUpTo(auxiliary, n) ==
    IF n = 0 THEN << <<>> >>
    ELSE LET permutations == permutationsUpTo(auxiliary, n - 1)
         IN  Flatten([p \in DOMAIN permutations |->
                 [k \in 1..n |-> InsertAt(permutations[p], k - 1, auxiliary[n])]])

auxPermutations(auxiliary) == permutationsUpTo(auxiliary, Len(auxiliary))

\* Mutant: a concern position that has no entity disqualifies.
permutationScore_MissingDisqualifies(permutation, auxConcerns) ==
    SeqSum([concernIndex \in DOMAIN auxConcerns |->
        IF concernIndex <= Len(permutation)
        THEN calculateConcernSpecificity(permutation[concernIndex], auxConcerns[concernIndex])
        ELSE DISQUALIFIED])

\* permutationScore: the positional sum, over the concerns that have an entity.
permutationScore(permutation, auxConcerns) ==
    SeqSum([concernIndex \in DOMAIN auxConcerns |->
        IF concernIndex <= Len(permutation)
        THEN calculateConcernSpecificity(permutation[concernIndex], auxConcerns[concernIndex])
        ELSE 0])

\* The scan of scoreMap: highScore starts at 0 and index at 0 (here 1-based: 1),
\* and only a strictly higher score replaces them.
RECURSIVE scanScores(_, _, _, _)
scanScores(scores, i, highScore, highIndex) ==
    IF i > Len(scores) THEN [highScore |-> highScore, index |-> highIndex]
    ELSE IF scores[i] > highScore
         THEN scanScores(scores, i + 1, scores[i], i)
         ELSE scanScores(scores, i + 1, highScore, highIndex)

\* auxiliaryScore and highestScoreAuxPermutation of one matcher:
\* [score, and permutation when there is one to hand on].  `array` tells which
\* array object the permutation is: the intent's own auxiliary array (line 324) or
\* one built by the permutation loops.
auxiliaryResult(intent, matcher) ==
    LET hasAux      == "auxiliary" \in DOMAIN intent
        hasConcerns == "auxiliary" \in DOMAIN matcher
    IN  IF ~(hasAux /\ hasConcerns /\ Len(matcher.auxiliary) # 0 /\ Len(intent.auxiliary) # 0)
        THEN IF hasAux THEN [score |-> 0, permutation |-> intent.auxiliary,
                             array |-> "intent.auxiliary"]
                       ELSE [score |-> 0]
        ELSE LET permutations == auxPermutations(intent.auxiliary)
                 scores == [p \in DOMAIN permutations |->
                                permutationScore(permutations[p], matcher.auxiliary)]
                 best   == scanScores(scores, 1, 0, 1)
             IN  [score |-> best.highScore, permutation |-> permutations[best.index],
                  array |-> "permutation"]

\* Mutant: an actor concern disqualifies an intent that names no actor.
actorScore_NeedsActor(intent, matcher) ==
    IF "actor" \in DOMAIN intent /\ "actor" \in DOMAIN matcher
    THEN calculateConcernSpecificity(intent.actor, matcher.actor)
    ELSE IF "actor" \in DOMAIN matcher THEN DISQUALIFIED ELSE 0

actorScore(intent, matcher) ==
    IF "actor" \in DOMAIN intent /\ "actor" \in DOMAIN matcher
    THEN calculateConcernSpecificity(intent.actor, matcher.actor) ELSE 0

targetScore(intent, matcher) ==
    IF "target" \in DOMAIN intent /\ "target" \in DOMAIN matcher
    THEN calculateConcernSpecificity(intent.target, matcher.target) ELSE 0

\* Mutant: the guard forgets the target score.
matcherDropped_IgnoresTarget(intent, matcher) ==
    \/ actorScore(intent, matcher) < 0
    \/ auxiliaryResult(intent, matcher).score < 0

\* The guard of line 369: some score < 0 drops the matcher.
matcherDropped(intent, matcher) ==
    \/ actorScore(intent, matcher) < 0
    \/ targetScore(intent, matcher) < 0
    \/ auxiliaryResult(intent, matcher).score < 0

totalScore(intent, matcher) ==
    actorScore(intent, matcher) + targetScore(intent, matcher)
        + auxiliaryResult(intent, matcher).score

matcherBid(law, intent, matcher) ==
    LET aux == auxiliaryResult(intent, matcher)
    IN  IF "permutation" \in DOMAIN aux
        THEN [law |-> law, score |-> totalScore(intent, matcher),
              reorderedAuxiliaries |-> aux.permutation, array |-> aux.array]
        ELSE [law |-> law, score |-> totalScore(intent, matcher)]

\* The body of law.matchers.forEach: the bid kept after matcher i.
\* Mutant: the comparison of line 375 turned round, which keeps the lowest total.
replacesBid_Lower(highestScoringBid, score) ==
    highestScoringBid = null \/ score < highestScoringBid.score

replacesBid(highestScoringBid, score) ==
    highestScoringBid = null \/ score > highestScoringBid.score

RECURSIVE forEachMatcher(_, _, _, _)
forEachMatcher(law, intent, i, highestScoringBid) ==
    IF i > Len(law.matchers) THEN highestScoringBid
    ELSE LET matcher == law.matchers[i]
         IN  IF matcherDropped(intent, matcher)
             THEN forEachMatcher(law, intent, i + 1, highestScoringBid)
             ELSE IF replacesBid(highestScoringBid, totalScore(intent, matcher))
             THEN forEachMatcher(law, intent, i + 1, matcherBid(law, intent, matcher))
             ELSE forEachMatcher(law, intent, i + 1, highestScoringBid)

calculateBid(law, intent) ==
    IF ~includes(law.intents, intent.name) THEN null
    ELSE forEachMatcher(law, intent, 1, null)

\* The local variables of one matcher's evaluation, as #calculateBid computes them.
matcherLocals(intent, matcher) ==
    [ actorScore     |-> actorScore(intent, matcher),
      targetScore    |-> targetScore(intent, matcher),
      auxiliaryScore |-> auxiliaryResult(intent, matcher).score,
      dropped        |-> matcherDropped(intent, matcher) ]

\* ==================================================== inputs of the model
Timestamps == {1000}
UserComponents == {"Tool"}
ToolData == {[type |-> "wrench"], [type |-> "plug"]}
TagNames == {"wrench", "sparkplug"}
CreateArgs == {<<>>, [metaId |-> "king"]}

cWrench == [tags |-> <<"wrench">>]
cPlug == [tags |-> <<"sparkplug">>]
cTool == [components |-> <<"Tool">>]
cToolMeta == [components |-> <<"Tool", "Meta">>]
cKing == [ids |-> <<"king">>]
cKingWrench == [ids |-> <<"king">>, tags |-> <<"wrench">>]
cToolWrench == [components |-> <<"Tool">>, tags |-> <<"wrench">>]
cPropTags ==
    [ props |-> <<[prop |-> <<"Tool", ".", "type">>, value |-> "wrench"]>>,
      tags  |-> <<"wrench", "sparkplug">> ]

mActorWrench == [actor |-> cWrench]
mActorTool == [actor |-> cTool]
mActorKing == [actor |-> cKing]
mActorKingWrench == [actor |-> cKingWrench]
mActorToolWrench == [actor |-> cToolWrench]
mActorPropTags == [actor |-> cPropTags]
mTargetPlug == [target |-> cPlug]
mAuxWrenchPlug == [auxiliary |-> <<cWrench, cPlug>>]
mAuxWrenchToolMeta == [auxiliary |-> <<cWrench, cToolMeta>>]
mActorToolAuxWrench == [actor |-> cTool, auxiliary |-> <<cWrench>>]
mAny == <<>>

ProbeMatcherLists ==
    { <<m>> : m \in { mActorWrench, mActorTool, mActorKingWrench,
                      mActorToolWrench, mActorPropTags, mTargetPlug, mAuxWrenchPlug,
                      mAuxWrenchToolMeta, mActorToolAuxWrench, mAny } }
    \cup { <<>>,
           <<mActorWrench, mActorTool>>,
           <<mAuxWrenchPlug, mActorTool>>, <<mActorKing, mAny>>,
           <<mActorToolAuxWrench, mAuxWrenchPlug>> }

ProbeLaws ==
    { [layer |-> Domain, name |-> "probe", intents |-> <<"fix">>, matchers |-> ms, apply |-> "probe"]
        : ms \in ProbeMatcherLists }
    \cup { [layer |-> Domain, name |-> "probe", intents |-> <<"take", "drop">>,
            matchers |-> <<mAny>>, apply |-> "probe"] }

ProbeIntents ==
    { [name |-> "fix"],
      [name |-> "fix", actor |-> 1],
      [name |-> "fix", actor |-> 2, target |-> 1],
      [name |-> "fix", auxiliary |-> <<1, 2>>],
      [name |-> "fix", actor |-> 1, auxiliary |-> <<2>>],
      [name |-> "take", actor |-> 1] }

NoProbe == [none |-> TRUE]
NoCall == [op |-> "none"]

\* The entities an intent names; the classifier hands over entities that exist.
IntentEntities(intent) ==
    (IF "actor" \in DOMAIN intent THEN {intent.actor} ELSE {})
    \cup (IF "target" \in DOMAIN intent THEN {intent.target} ELSE {})
    \cup (IF "auxiliary" \in DOMAIN intent THEN Range(intent.auxiliary) ELSE {})

\* ============================================== entity store operations
CreateEntity(args, now) ==
    /\ probe = NoProbe
    /\ call = NoCall
    /\ ecs.nextEntityId <= MaxEntities
    /\ ~createEntityThrows(ecs, args)
    /\ ecs' = createEntity(ecs, args, now)
    /\ UNCHANGED <<probe, call>>
    /\ UNCHANGED <<registryVars, pipelineVars>>

DefineComponent(name) ==
    /\ probe = NoProbe
    /\ call = NoCall
    /\ ~defineComponentThrows(ecs, name)
    /\ ecs' = defineComponent(ecs, name)
    /\ UNCHANGED <<probe, call>>
    /\ UNCHANGED <<registryVars, pipelineVars>>

SetComponentOnEntity(entity, name, data) ==
    /\ probe = NoProbe
    /\ call = NoCall
    /\ ~setComponentOnEntityThrows(ecs, name)
    /\ ecs' = setComponentOnEntity(ecs, entity, name, data)
    /\ ecs' # ecs
    /\ UNCHANGED <<probe, call>>
    /\ UNCHANGED <<registryVars, pipelineVars>>

AddTagToEntity(entity, tag) ==
    /\ probe = NoProbe
    /\ call = NoCall
    /\ ecs' = addTagToEntity(ecs, entity, tag)
    /\ ecs' # ecs
    /\ UNCHANGED <<probe, call>>
    /\ UNCHANGED <<registryVars, pipelineVars>>

UpdateComponentData(entity, name, data) ==
    /\ probe = NoProbe
    /\ call = NoCall
    /\ ~updateComponentDataThrows(ecs, name)
    /\ ecs' = updateComponentData(ecs, entity, name, data)
    /\ ecs' # ecs
    /\ UNCHANGED <<probe, call>>
    /\ UNCHANGED <<registryVars, pipelineVars>>

RemoveComponentFromEntity(entity, componentType) ==
    /\ probe = NoProbe
    /\ call = NoCall
    /\ ecs' = removeComponentFromEntity(ecs, entity, componentType)
    /\ ecs' # ecs
    /\ UNCHANGED <<probe, call>>
    /\ UNCHANGED <<registryVars, pipelineVars>>

DestroyEntity(entity) ==
    /\ probe = NoProbe
    /\ call = NoCall
    /\ ecs' = destroyEntity(ecs, entity)
    /\ ecs' # ecs
    /\ UNCHANGED <<probe, call>>
    /\ UNCHANGED <<registryVars, pipelineVars>>

\* One evaluation of #calculateBid on the store as it is; the run ends with it.
CalculateBid(law, intent) ==
    /\ probe = NoProbe
    /\ IntentEntities(intent) \subseteq ecs.activeEntities
    /\ probe' = [ law    |-> law,
                  intent |-> intent,
                  bid    |-> calculateBid(law, intent),
                  locals |-> [i \in DOMAIN law.matchers |-> matcherLocals(intent, law.matchers[i])] ]
    /\ UNCHANGED <<ecs, registryVars, pipelineVars, call>>

InitBid ==
    /\ ecs = NewECS
    /\ laws = <<>>
    /\ firstSeen = <<>>
    /\ insertedAt = <<>>
    /\ regOps = 0
    /\ commands = <<>>
    /\ auctions = <<>>
    /\ promises = {}
    /\ emitted = <<>>
    /\ probe = NoProbe
    /\ call = NoCall

NextBid ==
    \/ \E args \in CreateArgs, now \in Timestamps : CreateEntity(args, now)
    \/ \E name \in UserComponents : DefineComponent(name)
    \/ \E entity \in ecs.activeEntities, data \in ToolData :
            SetComponentOnEntity(entity, "Tool", data)
    \/ \E entity \in ecs.activeEntities, tag \in TagNames : AddTagToEntity(entity, tag)
    \/ \E law \in ProbeLaws, intent \in ProbeIntents : CalculateBid(law, intent)

SpecBid == InitBid /\ [][NextBid]_vars

\* ------------------------------------- SpecScore: the edges of the scoring
\* Laws of one matcher each, whose concerns have empty categories, props entries
\* that are malformed or name an unregistered component, and auxiliary concern lists
\* shorter or longer than the intent's auxiliaries; intents with and without actor.
pToolIsWrench == [prop |-> <<"Tool", ".", "type">>, value |-> "wrench"]
pNoDot == [prop |-> <<"Tool">>, value |-> "wrench"]
pNoComponent == [prop |-> <<".", "type">>, value |-> "wrench"]
pGhost == [prop |-> <<"Ghost", ".", "type">>, value |-> "wrench"]

ScoreConcerns ==
    { cWrench, cTool,
      [ids |-> <<>>], [components |-> <<>>], [props |-> <<>>], [tags |-> <<>>],
      [ids |-> <<>>, tags |-> <<"wrench">>],
      [components |-> <<>>, props |-> <<>>, tags |-> <<>>],
      [components |-> <<>>, tags |-> <<"wrench">>],
      [props |-> <<pToolIsWrench>>],
      [props |-> <<pNoDot>>], [props |-> <<pNoComponent>>], [props |-> <<pGhost>>],
      [props |-> <<pToolIsWrench, pNoDot>>], [props |-> <<pGhost, pToolIsWrench>>],
      [props |-> <<pNoDot>>, tags |-> <<"wrench">>],
      [props |-> <<pGhost>>, tags |-> <<"wrench">>] }

ScoreMatchers ==
    { [actor |-> c] : c \in ScoreConcerns }
    \cup { [target |-> cWrench], [actor |-> cWrench, target |-> cWrench],
           [auxiliary |-> <<>>], [auxiliary |-> <<cWrench>>],
           [auxiliary |-> <<cWrench, cTool>>], [auxiliary |-> <<cTool, cWrench>>], mAny }

ScoreLaws ==
    { [layer |-> Domain, name |-> "score", intents |-> <<"fix">>, matchers |-> <<m>>, apply |-> "score"]
        : m \in ScoreMatchers }

ScoreIntents ==
    { [name |-> "fix"],
      [name |-> "fix", actor |-> 1],
      [name |-> "fix", actor |-> 1, target |-> 2],
      [name |-> "fix", auxiliary |-> <<1>>],
      [name |-> "fix", auxiliary |-> <<1, 2>>] }

NextScore ==
    \/ \E args \in CreateArgs, now \in Timestamps : CreateEntity(args, now)
    \/ DefineComponent("Tool")
    \/ \E entity \in ecs.activeEntities : SetComponentOnEntity(entity, "Tool", [type |-> "wrench"])
    \/ \E entity \in ecs.activeEntities : AddTagToEntity(entity, "wrench")
    \/ \E law \in ScoreLaws, intent \in ScoreIntents : CalculateBid(law, intent)

SpecScore == InitBid /\ [][NextScore]_vars

\* ================================================================ auction
\* The comparator of the bid sort: negative when bidA goes first.
\* Mutant: the comparator looks at the score alone.
compareBids_ScoreOnly(bidA, bidB) == bidB.score - bidA.score

compareBids(bidA, bidB) ==
    LET layerDiff == bidB.law.layer - bidA.law.layer
    IN  IF layerDiff # 0 THEN layerDiff ELSE bidB.score - bidA.score

\* Array.prototype.sort is stable: an element goes before the first one that the
\* comparator puts after it, and behind every element it ties with.
RECURSIVE insertBid(_, _)
insertBid(sorted, bid) ==
    IF sorted = <<>> THEN <<bid>>
    ELSE IF compareBids(Head(sorted), bid) > 0 THEN <<bid>> \o sorted
    ELSE <<Head(sorted)>> \o insertBid(Tail(sorted), bid)

RECURSIVE sortBids(_)
sortBids(bids) ==
    IF bids = <<>> THEN <<>>
    ELSE insertBid(sortBids(SubSeq(bids, 1, Len(bids) - 1)), bids[Len(bids)])

\* this.#lawList.filter(...).flatMap(...): the bids in registry order.
\* The callback of flatMap: [bid] or [].
flatMapBid(bid) == IF bid # null THEN <<bid>> ELSE <<>>

RECURSIVE flatMapBids(_, _)
flatMapBids(lawList, intent) ==
    IF lawList = <<>> THEN <<>>
    ELSE flatMapBid(IF includes(Head(lawList).intents, intent.name)
                    THEN calculateBid(Head(lawList), intent) ELSE null)
            \o flatMapBids(Tail(lawList), intent)

auctionBids(lawList, intent) == sortBids(flatMapBids(lawList, intent))

\* Mutant: every remaining apply is called at once and the promises awaited together.
appliesStarted_All(bids, index) == {k \in DOMAIN bids : k >= index}

\* The law.apply calls made when control reaches the loop with the bid at `index`
\* next: the loop calls one apply and awaits it.
appliesStarted(bids, index) == IF index <= Len(bids) THEN {index} ELSE {}

\* The array objects an auction hands to its laws, each with its present contents:
\* 0 is intent.auxiliary, k the permutation array that bid k alone holds.
auxArrays(intent, bids) ==
    [a \in (IF "auxiliary" \in DOMAIN intent THEN {0} ELSE {})
            \cup {k \in DOMAIN bids : "array" \in DOMAIN bids[k] /\ bids[k].array = "permutation"}
        |-> IF a = 0 THEN intent.auxiliary ELSE bids[a].reorderedAuxiliaries]

\* The array object that is bid k's reorderedAuxiliaries.
arrayOf(bids, k) == IF bids[k].array = "permutation" THEN k ELSE 0

lawCtx_OriginalIsReordered(intent, bids, arrays, k) ==
    [f \in (DOMAIN intent \cap {"actor", "target"})
            \cup (IF "reorderedAuxiliaries" \in DOMAIN bids[k] THEN {"auxiliary"} ELSE {})
            \cup (IF "auxiliary" \in DOMAIN intent THEN {"originalAuxiliaries"} ELSE {})
            \cup {"ecsUtils"}
        |-> CASE f \in {"auxiliary", "originalAuxiliaries"} -> arrays[arrayOf(bids, k)]
              [] f = "ecsUtils" -> getReadonlyFacade
              [] OTHER -> intent[f]]

\* The lawCtx literal built for bid k: its lists are the arrays themselves, read here
\* as they are when the law is called.
lawCtx(intent, bids, arrays, k) ==
    [f \in (DOMAIN intent \cap {"actor", "target"})
            \cup (IF "reorderedAuxiliaries" \in DOMAIN bids[k] THEN {"auxiliary"} ELSE {})
            \cup (IF "auxiliary" \in DOMAIN intent THEN {"originalAuxiliaries"} ELSE {})
            \cup {"ecsUtils"}
        |-> CASE f = "auxiliary" -> arrays[arrayOf(bids, k)]
              [] f = "originalAuxiliaries" -> arrays[0]
              [] f = "ecsUtils" -> getReadonlyFacade
              [] OTHER -> intent[f]]

invocation(intent, bids, arrays, k) ==
    [bid |-> k, law |-> bids[k].law.name, apply |-> bids[k].law.apply,
     ctx |-> lawCtx(intent, bids, arrays, k)]

RECURSIVE invocations(_, _, _, _, _)
invocations(intent, bids, arrays, from, started) ==
    IF from > Len(bids) THEN <<>>
    ELSE (IF from \in started THEN <<invocation(intent, bids, arrays, from)>> ELSE <<>>)
            \o invocations(intent, bids, arrays, from + 1, started)

\* The activation record of #auctionIntent once `bids` is sorted and the loop has
\* reached its first await (or the return, when there is no bid).
\* `registry` is the law list the bids were computed from and `resumed` the law
\* list found at each resumption of the loop (history, not read by the code).
activation(command, intent, bids) ==
    [ command       |-> command,
      intent        |-> intent,
      registry      |-> laws,
      registered    |-> firstSeen,
      insertedAt    |-> insertedAt,
      bids          |-> bids,
      contributions |-> <<>>,
      arrays        |-> auxArrays(intent, bids),
      invoked       |-> invocations(intent, bids, auxArrays(intent, bids), 1, appliesStarted(bids, 1)),
      applied       |-> <<>>,
      resumed       |-> <<>>,
      state         |-> IF bids = <<>> THEN "returned" ELSE "awaiting",
      returned      |-> <<>> ]

\* #auctionIntent from its call to its first await.
auctionIntentCall(command, intent) == activation(command, intent, auctionBids(laws, intent))

\* Mutant: a REJECTED result ends the auction but hands back what was accumulated.
afterRejected_KeepsList(auction, result) ==
    [auction EXCEPT !.state = "returned", !.returned = auction.contributions]

\* Mutant: a REJECTED result leaves the auction where it is, neither returned nor
\* calling a law.
afterRejected_Stays(auction, result) == auction

\* What the loop does with a result: REJECTED returns [] at once.
afterRejected(auction, result) ==
    [auction EXCEPT !.state = "returned", !.returned = <<>>]

\* Mutant: COMPLETED is treated like PASS.
breaksLoop_Never(result) == FALSE

\* Whether the loop stops after pushing the result.
breaksLoop(result) == result.status = COMPLETED

\* Mutant: the bids are computed again from the registry at every resumption.
auctionIntentResume_Rebids(auction, k, result) ==
    LET seen == [auction EXCEPT !.applied = Append(@, [bid |-> k, law |-> auction.bids[k].law.name, result |-> result]),
                                !.bids = auctionBids(laws, auction.intent)]
    IN  IF result.status = REJECTED THEN afterRejected(seen, result)
        ELSE LET pushed  == [seen EXCEPT !.contributions = Append(@, result)]
                 started == IF breaksLoop(result) THEN {} ELSE appliesStarted(seen.bids, k + 1)
             IN  IF started = {}
                 THEN [pushed EXCEPT !.state = "returned", !.returned = pushed.contributions]
                 ELSE [pushed EXCEPT !.invoked = @ \o invocations(auction.intent, seen.bids,
                                                        auxArrays(auction.intent, seen.bids), k + 1, started)]

\* #auctionIntent from the resolution of the apply of bid k to the next await or
\* to the return.
auctionIntentResume(auction, k, result) ==
    LET seen == [auction EXCEPT !.applied = Append(@, [bid |-> k, law |-> auction.bids[k].law.name, result |-> result])]
    IN  IF result.status = REJECTED THEN afterRejected(seen, result)
        ELSE LET pushed  == [seen EXCEPT !.contributions = Append(@, result)]
                 started == IF breaksLoop(result) THEN {} ELSE appliesStarted(auction.bids, k + 1)
             IN  IF started = {}
                 THEN [pushed EXCEPT !.state = "returned", !.returned = pushed.contributions]
                 ELSE [pushed EXCEPT !.invoked = @ \o invocations(auction.intent, auction.bids,
                                                        auction.arrays, k + 1, started)]

\* The promises an activation is left holding: one per apply called and not resolved.
promisesOf(id, auction) ==
    { [auction |-> id, bid |-> auction.invoked[n].bid] :
        n \in { m \in DOMAIN auction.invoked : m > Len(auction.applied) } }

\* ========================================================== handleCommand
\* IntentPipelineConfig.confidenceThreshold 0.7, confidences in tenths.
confidenceThreshold == 7

\* #handleUnknownCommand of command c: what is emitted on the narrate stream.
handleUnknownCommand(c) == [command |-> c, stream |-> "narrate", key |-> "engine.unknown_command"]

\* Mutant: only the first response is looked at.
allIntentsAreValid_First(intentResponses) ==
    intentResponses[1].confidence >= confidenceThreshold /\ intentResponses[1].valid

allIntentsAreValid(intentResponses) ==
    \A i \in DOMAIN intentResponses :
        intentResponses[i].confidence >= confidenceThreshold /\ intentResponses[i].valid

\* The for loop of handleCommand from `index` on: the auctions it has called, and
\* whether it left through the missing-intent branch.
RECURSIVE intentLoop(_, _, _, _, _)
intentLoop(command, intentResponses, index, started, isDryRun) ==
    IF index > Len(intentResponses)
    THEN [auctions |-> started, unknown |-> FALSE, isDryRun |-> isDryRun,
          intentResponses |-> intentResponses]
    ELSE LET intentResponse == intentResponses[index]
         IN  IF "intent" \notin DOMAIN intentResponse
             THEN [auctions |-> started, unknown |-> TRUE, isDryRun |-> isDryRun,
                   intentResponses |-> intentResponses]
             ELSE intentLoop(command, intentResponses, index + 1,
                             Append(started, auctionIntentCall(command, intentResponse.intent)),
                             isDryRun \/ intentResponse.dryRun)

\* =============================================================== registry
\* Map.prototype.set keeps the place of a key that is present and appends a new one.
\* Mutant: the law is added beside the one it should replace.
ratifyLaw_Appends(lawList, newLaw) == Append(lawList, newLaw)

ratifyLaw(lawList, newLaw) ==
    IF \E i \in DOMAIN lawList : lawList[i].name = newLaw.name
    THEN [i \in DOMAIN lawList |-> IF lawList[i].name = newLaw.name THEN newLaw ELSE lawList[i]]
    ELSE Append(lawList, newLaw)

RECURSIVE revokeLaw(_, _)
revokeLaw(lawList, name) ==
    IF lawList = <<>> THEN <<>>
    ELSE (IF Head(lawList).name = name THEN <<>> ELSE <<Head(lawList)>>)
            \o revokeLaw(Tail(lawList), name)

RatifyLaw(newLaw) ==
    /\ regOps < MaxRegistryOps
    /\ laws' = ratifyLaw(laws, newLaw)
    /\ laws' # laws
    /\ firstSeen' = IF includes(firstSeen, newLaw.name) THEN firstSeen
                    ELSE Append(firstSeen, newLaw.name)
    /\ insertedAt' = IF \E i \in DOMAIN laws : laws[i].name = newLaw.name THEN insertedAt
                     ELSE MapSet(insertedAt, newLaw.name, regOps + 1)
    /\ regOps' = regOps + 1
    /\ UNCHANGED <<ecs, pipelineVars, probe, call>>

RevokeLaw(name) ==
    /\ regOps < MaxRegistryOps
    /\ laws' = revokeLaw(laws, name)
    /\ laws' # laws
    /\ regOps' = regOps + 1
    /\ UNCHANGED <<ecs, firstSeen, insertedAt, pipelineVars, probe, call>>

\* ================================================================ commands
\* The state handleCommand leaves behind when its for loop ends as `loop`.
leaveIntentLoop(c, loop) ==
    /\ auctions' = auctions \o loop.auctions
    /\ promises' = promises \cup
            UNION { promisesOf(Len(auctions) + n, loop.auctions[n]) : n \in DOMAIN loop.auctions }
    /\ emitted' = IF loop.unknown THEN Append(emitted, handleUnknownCommand(c)) ELSE emitted
    /\ commands' = [commands EXCEPT
            ![c] = [pc |-> IF loop.unknown THEN "emit" ELSE "done", isDryRun |-> loop.isDryRun,
                    intentResponses |-> loop.intentResponses]]

\* handleCommand(playerCommand) up to `await getIntentFromCommand`.
HandleCommand ==
    /\ Len(commands) < MaxCommands
    /\ commands' = Append(commands, [pc |-> "classify", isDryRun |-> FALSE])
    /\ UNCHANGED <<ecs, registryVars, auctions, promises, emitted, probe, call>>

\* The classifier's promise resolves with intentResponses: handleCommand runs on to
\* its next await (the emit of #handleUnknownCommand) or to its end.  The auctions
\* it calls are not awaited: each runs to its own first await inside the call.
ClassifierResolves(c, intentResponses) ==
    /\ c \in DOMAIN commands
    /\ commands[c].pc = "classify"
    /\ IF Len(intentResponses) = 0 \/ ~allIntentsAreValid(intentResponses)
       THEN /\ emitted' = Append(emitted, handleUnknownCommand(c))
            /\ commands' = [commands EXCEPT
                    ![c] = [pc |-> "emit", isDryRun |-> FALSE, intentResponses |-> intentResponses]]
            /\ UNCHANGED <<auctions, promises>>
       ELSE leaveIntentLoop(c, intentLoop(c, intentResponses, 1, <<>>, FALSE))
    /\ UNCHANGED <<ecs, registryVars, probe, call>>

\* The emitter's promise resolves: #handleUnknownCommand and handleCommand return.
EmitResolves(c) ==
    /\ c \in DOMAIN commands
    /\ commands[c].pc = "emit"
    /\ commands' = [commands EXCEPT ![c].pc = "done"]
    /\ UNCHANGED <<ecs, registryVars, auctions, promises, emitted, probe, call>>

\* The promise of a law.apply call resolves with `result`: its auction runs on.
ApplyResolves(promise, result) ==
    /\ promise \in promises
    /\ LET old == auctions[promise.auction]
           new == [auctionIntentResume(old, promise.bid, result) EXCEPT
                        !.resumed = Append(@, laws)]
       IN  /\ auctions' = [auctions EXCEPT ![promise.auction] = new]
           /\ promises' = (promises \ {promise}) \cup
                  { [auction |-> promise.auction, bid |-> new.invoked[m].bid]
                        : m \in (Len(old.invoked) + 1)..Len(new.invoked) }
    /\ UNCHANGED <<ecs, registryVars, commands, emitted, probe, call>>

\* A law whose apply is pending removes the last element of a list of its context
\* (ctx[list].pop()): the list is the array object the lawCtx literal was given.
\* One such call per auction is followed: the lists are as the auction got them.
LawMutatesContext(promise, list) ==
    /\ promise \in promises
    /\ LET auction == auctions[promise.auction]
           array == IF list = "auxiliary" THEN arrayOf(auction.bids, promise.bid) ELSE 0
       IN  /\ "auxiliary" \in DOMAIN auction.intent
           /\ auction.arrays = auxArrays(auction.intent, auction.bids)
           /\ auctions' = [auctions EXCEPT ![promise.auction].arrays[array] =
                                SubSeq(@, 1, Len(@) - 1)]
    /\ UNCHANGED <<ecs, registryVars, commands, promises, emitted, probe, call>>

\* ------------------------------------------------------- the game world
\* The store after the game's set-up calls: the player, created under the pretty
\* id 'king', and a wrench (tag wrench, component Tool of type wrench).
GameWorld ==
    LET w1 == createEntity(NewECS, [metaId |-> "king"], 1000)
        w2 == createEntity(w1, <<>>, 1000)
        w3 == defineComponent(w2, "Tool")
        w4 == setComponentOnEntity(w3, 2, "Tool", [type |-> "wrench"])
    IN  addTagToEntity(w4, 2, "wrench")

fixIntent == [name |-> "fix", actor |-> 1, target |-> 2]
takeIntent == [name |-> "take", actor |-> 1, target |-> 2]

lawA == [layer |-> Domain, name |-> "a", intents |-> <<"fix">>,
         matchers |-> <<[target |-> cWrench]>>, apply |-> "a"]
lawA2 == [lawA EXCEPT !.apply = "a2"]
lawB == [layer |-> Domain, name |-> "b", intents |-> <<"fix", "take">>,
         matchers |-> <<[target |-> cWrench]>>, apply |-> "b"]
lawC == [layer |-> Instance, name |-> "c", intents |-> <<"fix">>,
         matchers |-> <<mAny>>, apply |-> "c"]
lawD == [layer |-> Domain, name |-> "d", intents |-> <<"fix", "take">>,
         matchers |-> <<[target |-> cToolWrench]>>, apply |-> "d"]
lawE == [layer |-> Instance, name |-> "e", intents |-> <<"fix">>,
         matchers |-> <<[actor |-> cTool], [target |-> cPlug]>>, apply |-> "e"]
lawF == [layer |-> Core, name |-> "f", intents |-> <<"fix">>,
         matchers |-> <<>>, apply |-> "f"]
lawG == [layer |-> StdLib, name |-> "g", intents |-> <<"take">>,
         matchers |-> <<mAny>>, apply |-> "g"]

M1 == [op |-> "DESTROY", entity |-> 2]
Contributions ==
    { [status |-> PASS, mutations |-> <<M1>>], [status |-> COMPLETED], [status |-> REJECTED] }

response(intent) == [intent |-> intent, confidence |-> 9, valid |-> TRUE, dryRun |-> FALSE]
rNoIntent == [confidence |-> 9, valid |-> TRUE, dryRun |-> FALSE]
rLow == [intent |-> fixIntent, confidence |-> 5, valid |-> TRUE, dryRun |-> FALSE]
rInvalid == [intent |-> fixIntent, confidence |-> 9, valid |-> FALSE, dryRun |-> TRUE]

\* ------------------------------------------------ Spec: the pipeline
\* The game registers its laws, then the player's command is handled: the registry
\* calls precede the first handleCommand.
PipelineLaws == {lawA, lawC, lawD}
PipelineResponses ==
    { <<>>, <<response(fixIntent)>>, <<response(fixIntent), response(takeIntent)>>,
      <<response(fixIntent), rLow>>, <<rInvalid>>, <<response(takeIntent), rNoIntent>> }

Init ==
    /\ ecs = GameWorld
    /\ laws = <<>>
    /\ firstSeen = <<>>
    /\ insertedAt = <<>>
    /\ regOps = 0
    /\ commands = <<>>
    /\ auctions = <<>>
    /\ promises = {}
    /\ emitted = <<>>
    /\ probe = NoProbe
    /\ call = NoCall

Next ==
    \/ \E newLaw \in PipelineLaws : commands = <<>> /\ RatifyLaw(newLaw)
    \/ \E name \in {"a", "c", "d"} : commands = <<>> /\ RevokeLaw(name)
    \/ HandleCommand
    \/ \E c \in DOMAIN commands, intentResponses \in PipelineResponses :
            ClassifierResolves(c, intentResponses)
    \/ \E c \in DOMAIN commands : EmitResolves(c)
    \/ \E promise \in promises, result \in Contributions : ApplyResolves(promise, result)

Spec == Init /\ [][Next]_vars

\* --------------------------------------- SpecAuction: registry and order
\* The registry is built from laws that all bid on 'fix', then commands of that one
\* intent are auctioned; every law passes, so each auction runs down its whole bid list.
AuctionLaws == {lawA, lawA2, lawB, lawC, lawD}

NextAuction ==
    \/ \E newLaw \in AuctionLaws : commands = <<>> /\ RatifyLaw(newLaw)
    \/ \E name \in {l.name : l \in AuctionLaws} : commands = <<>> /\ RevokeLaw(name)
    \/ HandleCommand
    \/ \E c \in DOMAIN commands : ClassifierResolves(c, <<response(fixIntent)>>)
    \/ \E promise \in promises : ApplyResolves(promise, [status |-> PASS, mutations |-> <<M1>>])

SpecAuction == Init /\ [][NextAuction]_vars

\* ------------------------------------------- SpecEntry: who gets a bid
\* The registry holds laws that cannot bid (wrong intent, no matcher, every matcher
\* disqualified) beside one that can.
EntryLaws == {lawA, lawE, lawF, lawG}

NextEntry ==
    \/ \E newLaw \in EntryLaws : commands = <<>> /\ RatifyLaw(newLaw)
    \/ \E name \in {l.name : l \in EntryLaws} : commands = <<>> /\ RevokeLaw(name)
    \/ HandleCommand
    \/ \E c \in DOMAIN commands, intent \in {fixIntent, takeIntent} :
            ClassifierResolves(c, <<response(intent)>>)
    \/ \E promise \in promises, result \in Contributions : ApplyResolves(promise, result)

SpecEntry == Init /\ [][NextEntry]_vars

\* ------------------------------------ SpecContext: what the laws are handed
\* The command names auxiliaries; one law has an auxiliary concern, so its bid holds
\* a permutation array of its own, the others hold the intent's array.  A law may
\* alter the lists of its context while its apply is pending; every law passes.
lawH == [layer |-> Domain, name |-> "h", intents |-> <<"fix">>,
         matchers |-> <<[auxiliary |-> <<cWrench>>]>>, apply |-> "h"]
ContextLaws == {lawA, lawC, lawH}
ContextIntents ==
    { fixIntent, [name |-> "fix", actor |-> 1, auxiliary |-> <<1, 2>>],
      [name |-> "fix", actor |-> 1, target |-> 2, auxiliary |-> <<2, 1>>] }

NextContext ==
    \/ \E newLaw \in ContextLaws : commands = <<>> /\ RatifyLaw(newLaw)
    \/ \E name \in {l.name : l \in ContextLaws} : commands = <<>> /\ RevokeLaw(name)
    \/ HandleCommand
    \/ \E c \in DOMAIN commands, intent \in ContextIntents :
            ClassifierResolves(c, <<response(intent)>>)
    \/ \E promise \in promises : ApplyResolves(promise, [status |-> PASS, mutations |-> <<M1>>])
    \/ \E promise \in promises, list \in {"auxiliary", "originalAuxiliaries"} :
            LawMutatesContext(promise, list)

SpecContext == Init /\ [][NextContext]_vars

\* ---------------------------------- SpecLive: applies that resolve, or never
\* `await law.apply(lawCtx)`: whether the promise ever resolves is the law's business.
\* The apply of lawN never resolves; that of every other law resolves in the end,
\* with any of the three statuses, and the loop then runs on.
lawN == [layer |-> Domain, name |-> "n", intents |-> <<"fix">>,
         matchers |-> <<[target |-> cWrench]>>, apply |-> "never"]
LiveLaws == {lawA, lawC, lawN}
MaxBids == Cardinality(LiveLaws)

\* The apply behind the promise is one that never resolves.
Hangs(promise) == auctions[promise.auction].bids[promise.bid].law.apply = "never"

LawResolves(promise, result) ==
    /\ promise \in promises
    /\ ~Hangs(promise)
    /\ ApplyResolves(promise, result)

NextLive ==
    \/ \E newLaw \in LiveLaws : commands = <<>> /\ RatifyLaw(newLaw)
    \/ \E name \in {l.name : l \in LiveLaws} : commands = <<>> /\ RevokeLaw(name)
    \/ HandleCommand
    \/ \E c \in DOMAIN commands : ClassifierResolves(c, <<response(fixIntent)>>)
    \/ \E promise \in promises, result \in Contributions : LawResolves(promise, result)

\* Every promise that can resolve does: the laws other than lawN settle their
\* promises, and the continuation of a settled promise is run.
ApplyFairness ==
    \A a \in 1..MaxCommands, k \in 1..MaxBids :
        WF_vars(\E result \in Contributions : LawResolves([auction |-> a, bid |-> k], result))

SpecLive == Init /\ [][NextLive]_vars /\ ApplyFairness

\* ------------------------------- SpecRegistry: the registry while auctions run
\* ratifyLaw and revokeLaw are called at any time, also while an auction is suspended
\* in a law's apply, and the wrench may be destroyed under a running auction; every
\* law passes, so each auction runs down its whole bid list.
RegistryLaws == {lawA, lawA2, lawC}

NextRegistry ==
    \/ \E newLaw \in RegistryLaws : RatifyLaw(newLaw)
    \/ \E name \in {l.name : l \in RegistryLaws} : RevokeLaw(name)
    \/ DestroyEntity(2)
    \/ HandleCommand
    \/ \E c \in DOMAIN commands : ClassifierResolves(c, <<response(fixIntent)>>)
    \/ \E promise \in promises : ApplyResolves(promise, [status |-> PASS, mutations |-> <<M1>>])

SpecRegistry == Init /\ [][NextRegistry]_vars

\* ============================================ the entity store, called
\* One call of a client on the ECS instance, on the store as earlier calls left it
\* and on any entity id, live or not: the call leaves in `call` its arguments, the
\* store it found and what the caller got, a value returned or an error thrown.
\* The run ends with the call, or with what the client does to the value returned.
StoreEntities == 1..MaxEntities
StoreComponents == {"Tool", "Ghost"}
StoreData == {[type |-> "wrench"]}
StorePartials == {[size |-> 1]}
CallPartials == StorePartials \cup {[size |-> 2]}
StoreTags == {"wrench"}
PrettyIds == {"king", "queen"}
QueryLists ==
    { <<>>, <<"Tool">>, <<"Tags">>, <<"Tags", "Tool">>, <<"Tool", "Tags">>,
      <<"Tags", "Tool", "Meta">>, <<"Ghost", "Tags">>, <<"Tool", "Tool">> }

storeUnchanged == UNCHANGED <<registryVars, pipelineVars, probe>>

CreateEntityCall(args, now) ==
    /\ call = NoCall
    /\ ecs.nextEntityId <= MaxEntities
    /\ IF createEntityThrows(ecs, args)
       THEN /\ ecs' = ecs
            /\ call' = [op |-> "createEntity", args |-> args, before |-> ecs,
                        threw |-> CannotRegisterPrettyId(args.metaId)]
       ELSE /\ ecs' = createEntity(ecs, args, now)
            /\ call' = [op |-> "createEntity", args |-> args, before |-> ecs,
                        returned |-> [value |-> ecs.nextEntityId]]
    /\ storeUnchanged

DefineComponentCall(name) ==
    /\ call = NoCall
    /\ IF defineComponentThrows(ecs, name)
       THEN /\ ecs' = ecs
            /\ call' = [op |-> "defineComponent", name |-> name, before |-> ecs,
                        threw |-> ComponentAlreadyExists(name)]
       ELSE /\ ecs' = defineComponent(ecs, name)
            /\ call' = [op |-> "defineComponent", name |-> name, before |-> ecs,
                        returned |-> [value |-> name]]
    /\ storeUnchanged

SetComponentOnEntityCall(entity, name, data) ==
    /\ call = NoCall
    /\ IF setComponentOnEntityThrows(ecs, name)
       THEN /\ ecs' = ecs
            /\ call' = [op |-> "setComponentOnEntity", entity |-> entity, name |-> name,
                        data |-> data, before |-> ecs, threw |-> UnknownComponentType(name)]
       ELSE /\ ecs' = setComponentOnEntity(ecs, entity, name, data)
            /\ call' = [op |-> "setComponentOnEntity", entity |-> entity, name |-> name,
                        data |-> data, before |-> ecs, returned |-> undefined]
    /\ storeUnchanged

UpdateComponentDataCall(entity, name, data) ==
    /\ call = NoCall
    /\ IF updateComponentDataThrows(ecs, name)
       THEN /\ ecs' = ecs
            /\ call' = [op |-> "updateComponentData", entity |-> entity, name |-> name,
                        data |-> data, before |-> ecs, threw |-> UnknownComponentType(name)]
       ELSE /\ ecs' = updateComponentData(ecs, entity, name, data)
            /\ call' = [op |-> "updateComponentData", entity |-> entity, name |-> name,
                        data |-> data, before |-> ecs, returned |-> undefined]
    /\ storeUnchanged

RemoveComponentFromEntityCall(entity, componentType) ==
    /\ call = NoCall
    /\ ecs' = removeComponentFromEntity(ecs, entity, componentType)
    /\ call' = [op |-> "removeComponentFromEntity", entity |-> entity, name |-> componentType,
                before |-> ecs, returned |-> undefined]
    /\ storeUnchanged

DestroyEntityCall(entity) ==
    /\ call = NoCall
    /\ ecs' = destroyEntity(ecs, entity)
    /\ call' = [op |-> "destroyEntity", entity |-> entity, before |-> ecs, returned |-> undefined]
    /\ storeUnchanged

AddTagToEntityCall(entity, tag) ==
    /\ call = NoCall
    /\ ecs' = addTagToEntity(ecs, entity, tag)
    /\ call' = [op |-> "addTagToEntity", entity |-> entity, tag |-> tag,
                before |-> ecs, returned |-> undefined]
    /\ storeUnchanged

GetEntityComponentDataCall(entity, name) ==
    /\ call = NoCall
    /\ call' = [op |-> "getEntityComponentData", entity |-> entity, name |-> name,
                before |-> ecs, returned |-> getEntityComponentDataCopy(entity, name)]
    /\ UNCHANGED ecs
    /\ storeUnchanged

GetEntitiesByComponentsCall(componentTypes) ==
    /\ call = NoCall
    /\ call' = [op |-> "getEntitiesByComponents", componentTypes |-> componentTypes,
                before |-> ecs, returned |-> [value |-> getEntitiesByComponents(componentTypes)]]
    /\ UNCHANGED ecs
    /\ storeUnchanged

GetEntityByPrettyIdCall(id) ==
    /\ call = NoCall
    /\ call' = [op |-> "getEntityByPrettyId", id |-> id,
                before |-> ecs, returned |-> getEntityByPrettyId(id)]
    /\ UNCHANGED ecs
    /\ storeUnchanged

\* A method looked up on the instance and called: the store it leaves and the value
\* it returns.  The reads take `name` as the component, 'wrench' as the tag and
\* [name, 'Tags'] as the component list.
invoke(method, entity, name) ==
    CASE method = "entityHasTag" ->
            [ecs |-> ecs, returned |-> [value |-> entityHasTag(entity, "wrench")]]
      [] method = "entityHasComponent" ->
            [ecs |-> ecs, returned |-> [value |-> entityHasComponent(entity, name)]]
      [] method = "getEntitiesByComponents" ->
            [ecs |-> ecs, returned |-> [value |-> getEntitiesByComponents(<<name, "Tags">>)]]
      [] method = "getComponentsOnEntity" ->
            [ecs |-> ecs, returned |-> [value |-> getComponentsOnEntity(entity)]]
      [] method = "getEntityComponentData" ->
            [ecs |-> ecs, returned |-> getEntityComponentDataCopy(entity, name)]
      [] method = "destroyEntity" ->
            [ecs |-> destroyEntity(ecs, entity), returned |-> undefined]

\* A law calls a method of the facade it was handed.
FacadeCall(method, entity, name) ==
    /\ call = NoCall
    /\ method \in getReadonlyFacade
    /\ ecs' = invoke(method, entity, name).ecs
    /\ call' = [op |-> method, via |-> "facade", entity |-> entity, name |-> name,
                before |-> ecs, returned |-> invoke(method, entity, name).returned]
    /\ storeUnchanged

\* The client that has just received component data adds a tag to its list ...
ClientAddsToList(tag) ==
    /\ call.op = "getEntityComponentData"
    /\ call.returned # undefined
    /\ "list" \in DOMAIN call.returned.value
    /\ ecs' = addToList(ecs, call.returned, tag)
    /\ call' = [op |-> "list.add", entity |-> call.entity, name |-> call.name, tag |-> tag,
                before |-> ecs,
                object |-> [call.returned EXCEPT !.value.list = @ \cup {tag}]]
    /\ storeUnchanged

\* ... or assigns one of its fields.
ClientAssignsField(field, value) ==
    /\ call.op = "getEntityComponentData"
    /\ call.returned # undefined
    /\ ecs' = assignField(ecs, call.returned, field, value)
    /\ call' = [op |-> "assign", entity |-> call.entity, name |-> call.name, field |-> field,
                before |-> ecs,
                object |-> IF call.returned.frozen THEN call.returned
                           ELSE [call.returned EXCEPT
                                    !.value = Spread(@, [f \in {field} |-> value])]]
    /\ storeUnchanged

\* The client that has just called setComponentOnEntity(entity, name, data) assigns a
\* field of `data`, the object it still holds: store.set(entity, data) put that very
\* object into the store.
ClientAssignsSetData(field, value) ==
    /\ call.op = "setComponentOnEntity"
    /\ "returned" \in DOMAIN call
    /\ ecs' = assignField(ecs, stored(call.name, call.entity), field, value)
    /\ call' = [op |-> "data.assign", entity |-> call.entity, name |-> call.name,
                data |-> call.data, field |-> field, before |-> ecs]
    /\ storeUnchanged

InitStore ==
    /\ ecs = NewECS
    /\ laws = <<>>
    /\ firstSeen = <<>>
    /\ insertedAt = <<>>
    /\ regOps = 0
    /\ commands = <<>>
    /\ auctions = <<>>
    /\ promises = {}
    /\ emitted = <<>>
    /\ probe = NoProbe
    /\ call = NoCall

NextStore ==
    \/ \E args \in CreateArgs, now \in Timestamps : CreateEntity(args, now)
    \/ DefineComponent("Tool")
    \/ \E entity \in StoreEntities, data \in StoreData : SetComponentOnEntity(entity, "Tool", data)
    \/ \E entity \in StoreEntities, data \in StorePartials : UpdateComponentData(entity, "Tool", data)
    \/ \E entity \in StoreEntities : RemoveComponentFromEntity(entity, "Tool")
    \/ \E entity \in StoreEntities : DestroyEntity(entity)
    \/ \E entity \in StoreEntities, tag \in StoreTags : AddTagToEntity(entity, tag)
    \/ \E args \in CreateArgs, now \in Timestamps : CreateEntityCall(args, now)
    \/ \E name \in {"Tool", "Tags", "Meta"} : DefineComponentCall(name)
    \/ \E entity \in StoreEntities, name \in StoreComponents, data \in StoreData :
            SetComponentOnEntityCall(entity, name, data)
    \/ \E entity \in StoreEntities, name \in StoreComponents, data \in CallPartials :
            UpdateComponentDataCall(entity, name, data)
    \/ \E entity \in StoreEntities, name \in StoreComponents :
            RemoveComponentFromEntityCall(entity, name)
    \/ \E entity \in StoreEntities : DestroyEntityCall(entity)
    \/ \E entity \in StoreEntities, tag \in StoreTags : AddTagToEntityCall(entity, tag)
    \/ \E entity \in StoreEntities, name \in {"Tags", "Tool"} :
            GetEntityComponentDataCall(entity, name)
    \/ \E componentTypes \in QueryLists : GetEntitiesByComponentsCall(componentTypes)
    \/ \E id \in PrettyIds : GetEntityByPrettyIdCall(id)
    \/ \E method \in getReadonlyFacade, entity \in StoreEntities : FacadeCall(method, entity, "Tool")
    \/ \E tag \in StoreTags : ClientAddsToList(tag)
    \/ ClientAssignsField("type", "plug")
    \/ ClientAssignsSetData("type", "plug")

SpecStore == InitStore /\ [][NextStore]_vars

\* ====================================================== properties: bids
Probed == probe # NoProbe

SetMax(S) == CHOOSE x \in S : \A y \in S : y <= x

\* Every ordering of a list, as a set (independent of how the code builds its list).
OrderingsOf(s) ==
    { [i \in DOMAIN s |-> s[f[i]]] :
        f \in { g \in [DOMAIN s -> DOMAIN s] : \A i, j \in DOMAIN s : g[i] = g[j] => i = j } }

\* The positions at which an ordering meets a concern.
Positions(ordering, concerns) == { k \in DOMAIN concerns : k <= Len(ordering) }

PositionDisqualified(ordering, concerns) ==
    \E k \in Positions(ordering, concerns) :
        calculateConcernSpecificity(ordering[k], concerns[k]) = DISQUALIFIED

PositionalSum(ordering, concerns) ==
    SeqSum([k \in DOMAIN concerns |->
        IF k \in Positions(ordering, concerns)
        THEN calculateConcernSpecificity(ordering[k], concerns[k]) ELSE 0])

\* The matcher has auxiliary concerns and the intent has auxiliaries.
AuxCase(intent, matcher) ==
    /\ "auxiliary" \in DOMAIN matcher
    /\ "auxiliary" \in DOMAIN intent
    /\ matcher.auxiliary # <<>>
    /\ intent.auxiliary # <<>>

QualifiedOrderings(intent, matcher) ==
    { o \in OrderingsOf(intent.auxiliary) : ~PositionDisqualified(o, matcher.auxiliary) }

\* C7: a matcher with auxiliary concerns, probed with an intent that has auxiliaries,
\* contributes no bid when every ordering of the auxiliaries puts some entity against
\* a concern that is DISQUALIFIED for it: a law all of whose matchers are such has no bid.
C7_AuxDisqualifiedMatcherDropped ==
    ( /\ Probed
      /\ probe.law.matchers # <<>>
      /\ includes(probe.law.intents, probe.intent.name)
      /\ \A i \in DOMAIN probe.law.matchers :
            /\ AuxCase(probe.intent, probe.law.matchers[i])
            /\ QualifiedOrderings(probe.intent, probe.law.matchers[i]) = {} )
        => probe.bid = null

\* C8: where some ordering of the auxiliaries has no DISQUALIFIED position, the
\* matcher's auxiliary score is the largest positional sum among those orderings,
\* and the bid of a one-matcher law carries an ordering that reaches it.
C8_AuxScoreIsBestQualifiedOrdering ==
    Probed =>
        \A i \in DOMAIN probe.law.matchers :
            LET matcher   == probe.law.matchers[i]
                qualified == QualifiedOrderings(probe.intent, matcher)
                best      == SetMax({PositionalSum(o, matcher.auxiliary) : o \in qualified})
            IN  (AuxCase(probe.intent, matcher) /\ qualified # {}) =>
                    /\ probe.locals[i].auxiliaryScore = best
                    /\ ( (Len(probe.law.matchers) = 1 /\ probe.bid # null) =>
                            /\ probe.bid.reorderedAuxiliaries \in qualified
                            /\ PositionalSum(probe.bid.reorderedAuxiliaries, matcher.auxiliary) = best )

\* The matchers the code keeps, and the total each reaches.
Surviving(p) == { i \in DOMAIN p.law.matchers : ~p.locals[i].dropped }
Total(p, i) == p.locals[i].actorScore + p.locals[i].targetScore + p.locals[i].auxiliaryScore

\* C9: the bid of a law is the bid of one of its surviving matchers whose total
\* (actor + target + auxiliary) is the largest of the surviving totals - not their
\* sum - with that matcher's winning auxiliary ordering; no surviving matcher, no bid.
C9_BidIsMaxOverMatchers ==
    (Probed /\ includes(probe.law.intents, probe.intent.name)) =>
        IF Surviving(probe) = {} THEN probe.bid = null
        ELSE /\ probe.bid # null
             /\ probe.bid.score = SetMax({Total(probe, i) : i \in Surviving(probe)})
             /\ \E i \in Surviving(probe) :
                    /\ Total(probe, i) = probe.bid.score
                    /\ probe.bid = matcherBid(probe.law, probe.intent, probe.law.matchers[i])

\* C9 witness: two surviving matchers with positive totals, the bid below their sum.
C9_Witness ==
    /\ Probed
    /\ probe.bid # null
    /\ \E i, j \in Surviving(probe) :
            /\ i # j
            /\ Total(probe, i) > 0
            /\ Total(probe, j) > Total(probe, i)
            /\ probe.bid.score = Total(probe, j)
            /\ "reorderedAuxiliaries" \in DOMAIN probe.bid

\* Categories of a concern that list something, none of which the entity matches.
TagsFail(entity, concern) ==
    /\ "tags" \in DOMAIN concern /\ concern.tags # <<>>
    /\ \A t \in Range(concern.tags) :
            ~( entity \in DOMAIN ecs.components["Tags"]
               /\ t \in ecs.components["Tags"][entity].list )

ComponentsFail(entity, concern) ==
    /\ "components" \in DOMAIN concern /\ concern.components # <<>>
    /\ \A c \in Range(concern.components) :
            ~(c \in DOMAIN ecs.components /\ entity \in DOMAIN ecs.components[c])

\* The catalogue's props entries are all of the form <<Component, ".", field>>.
PropsFail(entity, concern) ==
    /\ "props" \in DOMAIN concern /\ concern.props # <<>>
    /\ \A e \in Range(concern.props) :
            LET c == e.prop[1]
                f == e.prop[3]
            IN  ~( /\ c \in DOMAIN ecs.components
                   /\ entity \in DOMAIN ecs.components[c]
                   /\ f \in DOMAIN ecs.components[c][entity]
                   /\ ecs.components[c][entity][f] = e.value )

IdsFail(entity, concern) ==
    /\ "ids" \in DOMAIN concern /\ concern.ids # <<>>
    /\ \A id \in Range(concern.ids) :
            ~(id \in DOMAIN ecs.prettyIdMap /\ ecs.prettyIdMap[id] = entity)

\* The entity was not created under the pretty id.
NotPrettyId(entity, id) ==
    \/ entity \notin DOMAIN ecs.components["Meta"]
    \/ ecs.components["Meta"][entity].id # id

SomeCategoryFails(entity, concern) ==
    \/ IdsFail(entity, concern)
    \/ ComponentsFail(entity, concern)
    \/ PropsFail(entity, concern)
    \/ TagsFail(entity, concern)
    \/ ("ids" \in DOMAIN concern /\ concern.ids = <<"king">> /\ NotPrettyId(entity, "king"))

\* C10: a concern scored for an entity is DISQUALIFIED as soon as one of its
\* populated categories (ids, components, props, tags) matches nothing for the
\* entity, whatever the other categories match; so is ids ['king'] for an entity
\* that was not created under the pretty id 'king'.
C10_FailedCategoryDisqualifies ==
    Probed =>
        \A i \in DOMAIN probe.law.matchers :
            LET matcher == probe.law.matchers[i]
            IN  /\ ( ( /\ "actor" \in DOMAIN matcher
                       /\ "actor" \in DOMAIN probe.intent
                       /\ SomeCategoryFails(probe.intent.actor, matcher.actor) )
                        => probe.locals[i].actorScore = DISQUALIFIED )
                /\ ( ( /\ "target" \in DOMAIN matcher
                       /\ "target" \in DOMAIN probe.intent
                       /\ SomeCategoryFails(probe.intent.target, matcher.target) )
                        => probe.locals[i].targetScore = DISQUALIFIED )

\* C10 witness: a concern one category of which matches while another fails.
C10_Witness ==
    /\ Probed
    /\ \E i \in DOMAIN probe.law.matchers :
            /\ "actor" \in DOMAIN probe.law.matchers[i]
            /\ "actor" \in DOMAIN probe.intent
            /\ TagsFail(probe.intent.actor, probe.law.matchers[i].actor)
            /\ componentScore(probe.intent.actor, probe.law.matchers[i].actor) > 0
            /\ probe.locals[i].actorScore = DISQUALIFIED

\* The listed items of a concern that the entity matches, counted per listed item
\* and read off the store.
ComponentsMatched(entity, concern) ==
    IF "components" \notin DOMAIN concern THEN 0
    ELSE Cardinality({ i \in DOMAIN concern.components :
            /\ concern.components[i] \in DOMAIN ecs.components
            /\ entity \in DOMAIN ecs.components[concern.components[i]] })

PropsMatched(entity, concern) ==
    IF "props" \notin DOMAIN concern THEN 0
    ELSE Cardinality({ i \in DOMAIN concern.props :
            LET c == concern.props[i].prop[1]
                f == concern.props[i].prop[3]
            IN  /\ c \in DOMAIN ecs.components
                /\ entity \in DOMAIN ecs.components[c]
                /\ f \in DOMAIN ecs.components[c][entity]
                /\ ecs.components[c][entity][f] = concern.props[i].value })

TagsMatched(entity, concern) ==
    IF "tags" \notin DOMAIN concern THEN 0
    ELSE Cardinality({ i \in DOMAIN concern.tags :
            /\ entity \in DOMAIN ecs.components["Tags"]
            /\ concern.tags[i] \in ecs.components["Tags"][entity].list })

\* In halves: 10 per component, 20 per props entry, 2.5 per tag.
WeightedSum(entity, concern) ==
    20 * ComponentsMatched(entity, concern) + 40 * PropsMatched(entity, concern)
        + 5 * TagsMatched(entity, concern)

NoCategoryFails(entity, concern) ==
    ~( \/ ComponentsFail(entity, concern)
       \/ PropsFail(entity, concern)
       \/ TagsFail(entity, concern) )

C12_PrettyIdMatchScores ==
    Probed =>
        \A i \in DOMAIN probe.law.matchers :
            ( /\ "actor" \in DOMAIN probe.intent
              /\ probe.law.matchers[i] = mActorKing
              /\ probe.intent.actor \in DOMAIN ecs.components["Meta"]
              /\ ecs.components["Meta"][probe.intent.actor].id = "king" )
                => /\ probe.locals[i].actorScore # DISQUALIFIED
                   /\ probe.locals[i].actorScore >= 2 * 100

\* ================================================== properties: auctions
Auctions == { auctions[id] : id \in DOMAIN auctions }
Results(auction) == [n \in DOMAIN auction.applied |-> auction.applied[n].result]
Rejections(auction) == { n \in DOMAIN auction.applied : auction.applied[n].result.status = REJECTED }
Pending(id) == { promise \in promises : promise.auction = id }

\* C1: once the law invoked for a bid has returned REJECTED, the auction has returned
\* the empty list, whatever PASS contributions came before, and no law ranked after
\* the rejecting one has been invoked.
C1_RejectedReturnsEmpty ==
    \A id \in DOMAIN auctions :
        \A n \in Rejections(auctions[id]) :
            /\ auctions[id].state = "returned"
            /\ auctions[id].returned = <<>>
            /\ Pending(id) = {}
            /\ \A m \in DOMAIN auctions[id].invoked :
                    auctions[id].invoked[m].bid <= auctions[id].applied[n].bid

\* C1 witness: a PASS with a mutation, then a REJECTED, with a bid left untried.
C1_Witness ==
    \E auction \in Auctions :
        /\ Len(auction.applied) = 2
        /\ auction.applied[1].result = [status |-> PASS, mutations |-> <<M1>>]
        /\ auction.applied[2].result.status = REJECTED
        /\ Len(auction.bids) > 2
        /\ auction.returned = <<>>

\* C2: with no REJECTED among the results, the contributions are the results of the
\* invoked laws in bid order; after a PASS the next bid is tried; the first COMPLETED
\* is appended and is the last invocation; the auction returns the accumulated list
\* when a COMPLETED arrives or the bids are exhausted.
C2_NoRejectionReturnsContributions ==
    \A auction \in Auctions :
        Rejections(auction) = {} =>
            /\ auction.contributions = Results(auction)
            /\ \A n \in DOMAIN auction.applied :
                    /\ auction.applied[n].bid = n
                    /\ ( (auction.applied[n].result.status = PASS /\ n < Len(auction.bids))
                            => Len(auction.invoked) > n )
                    /\ ( auction.applied[n].result.status = COMPLETED
                            => /\ n = Len(auction.applied)
                               /\ n = Len(auction.invoked)
                               /\ auction.state = "returned" )
            /\ ( auction.state = "returned" =>
                    /\ auction.returned = Results(auction)
                    /\ \/ Len(auction.applied) = Len(auction.bids)
                       \/ auction.applied[Len(auction.applied)].result.status = COMPLETED )
            /\ ( Len(auction.applied) = Len(auction.bids) => auction.state = "returned" )

\* C2 witness: PASS then COMPLETED returned, the third bid never invoked.
C2_Witness ==
    \E auction \in Auctions :
        /\ Len(auction.bids) = 3
        /\ auction.state = "returned"
        /\ auction.returned = <<[status |-> PASS, mutations |-> <<M1>>], [status |-> COMPLETED]>>
        /\ Len(auction.invoked) = 2

\* C3: within one auction at most one apply is pending; the apply of the bid at
\* position k+1 has been called only if the apply at position k has resolved; and
\* the applies are called in the order of the sorted bids.
C3_AppliesNeverOverlap ==
    \A id \in DOMAIN auctions :
        /\ Cardinality(Pending(id)) <= 1
        /\ Len(auctions[id].invoked) <= Len(auctions[id].applied) + 1
        /\ \A n \in DOMAIN auctions[id].invoked :
                /\ auctions[id].invoked[n].bid = n
                /\ auctions[id].invoked[n].apply = auctions[id].bids[n].law.apply
        /\ \A n \in DOMAIN auctions[id].applied : auctions[id].applied[n].bid = n

\* C3 witness: the first apply has resolved, the second is pending, a third bid waits.
C3_Witness ==
    \E id \in DOMAIN auctions :
        /\ Len(auctions[id].bids) = 3
        /\ Len(auctions[id].applied) = 1
        /\ Pending(id) = {[auction |-> id, bid |-> 2]}

\* C4: the auctions of one command run one after the other: a later intent's auction
\* has invoked a law only if every earlier intent's auction has returned, so at most
\* one apply is pending at any time.
C4_OneIntentAtATime ==
    /\ Cardinality(promises) <= 1
    /\ \A i, j \in DOMAIN auctions :
            ( /\ i < j
              /\ auctions[i].command = auctions[j].command
              /\ auctions[j].invoked # <<>> )
                => auctions[i].state = "returned"

\* ============================================= properties: order and entry
PlaceIn(names, name) == CHOOSE i \in DOMAIN names : names[i] = name

\* A bid that must come before another: higher layer, or same layer and higher
\* score, or a tie and the earlier `rank`.
Precedes(bidA, bidB, rankA, rankB) ==
    \/ bidA.law.layer > bidB.law.layer
    \/ bidA.law.layer = bidB.law.layer /\ bidA.score > bidB.score
    \/ bidA.law.layer = bidB.law.layer /\ bidA.score = bidB.score /\ rankA < rankB

\* The bids are registered laws and the applies are called down the bid list.
InvokedDownTheBids(auction) ==
    /\ \A i \in DOMAIN auction.bids : auction.bids[i].law \in Range(auction.registry)
    /\ \A n \in DOMAIN auction.invoked :
            /\ auction.invoked[n].bid = n
            /\ auction.invoked[n].apply = auction.bids[n].law.apply

\* C5: the laws of an auction are invoked in the order of a stable sort of the
\* participating laws by (layer descending, score descending): higher layer first
\* whatever the scores, then higher score, and equal bids in the registry's order,
\* which is the order in which the names were last added while absent: ratifying a
\* present name keeps its place, ratifying a revoked name puts it last.
C5_StableSortByLayerThenScore ==
    \A auction \in Auctions :
        /\ InvokedDownTheBids(auction)
        /\ \A i, j \in DOMAIN auction.bids :
                i < j => Precedes(auction.bids[i], auction.bids[j],
                                  auction.insertedAt[auction.bids[i].law.name],
                                  auction.insertedAt[auction.bids[j].law.name])

\* C5 as stated: equal bids in the order of first registration of each name.
C5_TiesInFirstRegistrationOrder ==
    \A auction \in Auctions :
        /\ InvokedDownTheBids(auction)
        /\ \A i, j \in DOMAIN auction.bids :
                i < j => Precedes(auction.bids[i], auction.bids[j],
                                  PlaceIn(auction.registered, auction.bids[i].law.name),
                                  PlaceIn(auction.registered, auction.bids[j].law.name))

\* C5 witness: an Instance bid of score 0 invoked before two Domain bids of equal
\* positive score, the first of which was ratified a second time in place.
C5_Witness ==
    \E auction \in Auctions :
        /\ Len(auction.bids) = 3
        /\ Len(auction.applied) = 3
        /\ auction.bids[1].law.layer = Instance /\ auction.bids[1].score = 0
        /\ auction.bids[2].law = lawA2 /\ auction.bids[2].score > 0
        /\ auction.bids[3].law = lawB /\ auction.bids[3].score = auction.bids[2].score
        /\ auction.invoked[2].apply = "a2"

\* A matcher neither of whose actor and target concerns is DISQUALIFIED.
Qualified(law, intent) ==
    { i \in DOMAIN law.matchers :
        /\ actorScore(intent, law.matchers[i]) # DISQUALIFIED
        /\ targetScore(intent, law.matchers[i]) # DISQUALIFIED }

Enters(law, intent) == includes(law.intents, intent.name) /\ Qualified(law, intent) # {}

\* C6: a law's apply is invoked only if the law is registered, lists intent.name
\* and has a matcher whose actor and target concerns are not DISQUALIFIED; a law
\* without such a matcher (its matchers list may be empty) has no bid.
C6_OnlyEnteredLawsInvoked ==
    \A auction \in Auctions :
        /\ \A n \in DOMAIN auction.invoked :
                \E r \in DOMAIN auction.registry :
                    /\ auction.registry[r].name = auction.invoked[n].law
                    /\ auction.registry[r].apply = auction.invoked[n].apply
                    /\ Enters(auction.registry[r], auction.intent)
        /\ \A r \in DOMAIN auction.registry :
                ~Enters(auction.registry[r], auction.intent) =>
                    \A i \in DOMAIN auction.bids : auction.bids[i].law.name # auction.registry[r].name

\* C6 witness: a registry holding a law for another intent, a law without matchers
\* and a law whose matchers are all disqualified; only the fourth law is invoked.
C6_Witness ==
    \E auction \in Auctions :
        /\ \E r \in DOMAIN auction.registry :
                ~includes(auction.registry[r].intents, auction.intent.name)
        /\ \E r \in DOMAIN auction.registry :
                /\ includes(auction.registry[r].intents, auction.intent.name)
                /\ auction.registry[r].matchers = <<>>
        /\ \E r \in DOMAIN auction.registry :
                /\ includes(auction.registry[r].intents, auction.intent.name)
                /\ auction.registry[r].matchers # <<>>
                /\ Qualified(auction.registry[r], auction.intent) = {}
        /\ Len(auction.bids) = 1
        /\ Len(auction.applied) = 1
        /\ auction.state = "returned"

\* =============================================== properties: entity store
\* The entities destroyEntity has run on: ids that were given out and are no longer
\* active (only destroyEntity takes an id out of #activeEntities).
Destroyed == {e \in 1..(ecs.nextEntityId - 1) : e \notin ecs.activeEntities}

\* The entities holding an entry in the store of component c.
Holders(E, c) == IF c \in DOMAIN E.components THEN DOMAIN E.components[c] ELSE {}

\* C13: in every reachable state of the store no component store holds an entry for
\* an entity outside the active set; in particular a destroyed entity has no
\* component (entityHasComponent is false for every registered component) and is in
\* no getEntitiesByComponents result.
C13_StoreEntriesAreActive ==
    /\ \A c \in DOMAIN ecs.components : Holders(ecs, c) \subseteq ecs.activeEntities
    /\ \A e \in Destroyed :
        /\ \A c \in DOMAIN ecs.components : ~entityHasComponent(e, c)
        /\ \A componentTypes \in QueryLists : e \notin Range(getEntitiesByComponents(componentTypes))

\* C14: right after destroyEntity(e), e has no component in any registered store
\* (Tags and Meta included), getComponentsOnEntity(e) is empty and e is not active,
\* while every other entity holds exactly the component data it held before.
C14_DestroyRemovesOnlyTheEntity ==
    call.op = "destroyEntity" =>
        /\ \A c \in DOMAIN ecs.components : ~entityHasComponent(call.entity, c)
        /\ getComponentsOnEntity(call.entity) = <<>>
        /\ call.entity \notin ecs.activeEntities
        /\ DOMAIN ecs.components = DOMAIN call.before.components
        /\ \A c \in DOMAIN ecs.components :
            /\ Holders(ecs, c) = Holders(call.before, c) \ {call.entity}
            /\ \A other \in Holders(ecs, c) :
                    ecs.components[c][other] = call.before.components[c][other]

\* An entity with Tags, Meta and Tool is destroyed while another entity holds Tool.
C14_Witness ==
    /\ call.op = "destroyEntity"
    /\ \A c \in {"Tags", "Meta", "Tool"} : call.entity \in Holders(call.before, c)
    /\ \E other \in Holders(call.before, "Tool") : other # call.entity

\* The argument lists that name the same components in another order.
Reorderings(s) ==
    { [i \in DOMAIN s |-> s[f[i]]] : f \in {g \in [DOMAIN s -> DOMAIN s] : Range(g) = DOMAIN s} }

\* The entities that hold every component of the list, read off the stores.
HoldersOfAll(componentTypes) ==
    { e \in UNION {Holders(ecs, c) : c \in DOMAIN ecs.components} :
        \A i \in DOMAIN componentTypes : e \in Holders(ecs, componentTypes[i]) }

\* C15: getEntitiesByComponents returns, without duplicates, exactly the entities
\* that hold every listed component, in whichever order the components are listed;
\* it returns nothing for no argument and for a list with an unpopulated or
\* unregistered component.
C15_QueryIsTheIntersection ==
    (call.op = "getEntitiesByComponents" /\ "componentTypes" \in DOMAIN call) =>
        LET result == call.returned.value
            types  == call.componentTypes
        IN  /\ Cardinality(Range(result)) = Len(result)
            /\ Range(result) = IF types = <<>> THEN {} ELSE HoldersOfAll(types)
            /\ \A other \in Reorderings(types) :
                    Range(getEntitiesByComponents(other)) = Range(result)
            /\ (\E i \in DOMAIN types : Holders(ecs, types[i]) = {}) => result = <<>>

\* A query on three components, listed largest store last, that keeps one holder of
\* the first component and turns another away.
C15_Witness ==
    /\ call.op = "getEntitiesByComponents"
    /\ "componentTypes" \in DOMAIN call
    /\ Len(call.componentTypes) = 3
    /\ call.returned.value # <<>>
    /\ Holders(ecs, call.componentTypes[1]) \ Range(call.returned.value) # {}

\* C16: whatever the caller does to a value getEntityComponentData returned (adding
\* to its nested list, assigning a field), the store is as it was, so every later
\* getEntityComponentData, entityHasTag and query reads what it read before.
C16_ReturnedDataIsACopy ==
    call.op \in {"list.add", "assign"} =>
        /\ ecs = call.before
        /\ getEntityComponentData(call.entity, call.name)
                = call.before.components[call.name][call.entity]

\* The caller added a tag to the list of the Tags data it was given: its own object
\* holds the tag and the entity does not.
C16_Witness ==
    /\ call.op = "list.add"
    /\ call.tag \in call.object.value.list
    /\ ~entityHasTag(call.entity, call.tag)

ReadOperations ==
    { "entityHasTag", "entityHasComponent", "getEntitiesByComponents",
      "getComponentsOnEntity", "getEntityComponentData" }

\* C17: the facade exposes the five read operations and nothing else, and a call
\* made through it leaves the component stores, the active set, the pretty-id index
\* and the id counter as they were.
C17_FacadeOnlyReads ==
    /\ getReadonlyFacade = ReadOperations
    /\ "via" \in DOMAIN call =>
        /\ call.op \in ReadOperations
        /\ ecs.components = call.before.components
        /\ ecs.activeEntities = call.before.activeEntities
        /\ ecs.prettyIdMap = call.before.prettyIdMap
        /\ ecs.nextEntityId = call.before.nextEntityId

\* A law read the Tool data of an entity through the facade.
C17_Witness ==
    /\ "via" \in DOMAIN call
    /\ call.op = "getEntityComponentData"
    /\ call.returned # undefined
    /\ call.returned.value = ecs.components["Tool"][call.entity]

\* The entities of store E that were created with pretty id p (Meta.id is written by
\* createEntity alone).
CreatedAs(E, p) == {e \in Holders(E, "Meta") : E.components["Meta"][e].id = p}

\* C18: createEntity(p) with a pretty id an earlier createEntity was given throws
\* and allocates nothing (the id counter and the stores are as before), so no two
\* entities carry the same pretty id.
C18_DuplicatePrettyIdRejected ==
    /\ (/\ call.op = "createEntity"
        /\ "metaId" \in DOMAIN call.args
        /\ CreatedAs(call.before, call.args.metaId) # {})
            => ("threw" \in DOMAIN call /\ ecs = call.before)
    /\ \A p \in PrettyIds : Cardinality(CreatedAs(ecs, p)) <= 1

\* C19: getEntityByPrettyId(p) returns the entity createEntity(p) returned, and
\* absent for a pretty id no createEntity was given.
C19_PrettyIdLookup ==
    call.op = "getEntityByPrettyId" =>
        IF CreatedAs(ecs, call.id) = {}
        THEN call.returned = undefined
        ELSE \E e \in CreatedAs(ecs, call.id) : call.returned = [value |-> e]

\* C20: setComponentOnEntity and updateComponentData on a component name that was
\* never registered throw 'Unknown component type: <name>' to the caller and leave
\* every component store as it was.
C20_UnknownComponentThrows ==
    (/\ call.op \in {"setComponentOnEntity", "updateComponentData"}
     /\ call.name \notin DOMAIN call.before.components)
        => /\ "threw" \in DOMAIN call
           /\ "returned" \notin DOMAIN call
           /\ call.threw = <<"Unknown component type: ", call.name>>
           /\ ecs.components = call.before.components

\* 'Ghost' was never registered; the call is made on a store that holds Tool data.
C20_Witness ==
    /\ call.op \in {"setComponentOnEntity", "updateComponentData"}
    /\ call.name = "Ghost"
    /\ "Ghost" \notin DOMAIN call.before.components
    /\ call.entity \in Holders(call.before, "Tool")
    /\ "threw" \in DOMAIN call

\* C21: removeComponentFromEntity against a component name that is not registered
\* raises an error to the caller, as setComponentOnEntity and updateComponentData do.
C21_RemoveUnknownComponentThrows ==
    (/\ call.op = "removeComponentFromEntity"
     /\ call.name \notin DOMAIN call.before.components)
        => "threw" \in DOMAIN call

\* C22: defineComponent(name) with a name that is registered, the bootstrapped Tags
\* and Meta included, throws to the caller and leaves the store of that name with
\* the entries it had.
C22_DuplicateComponentThrows ==
    (/\ call.op = "defineComponent"
     /\ call.name \in DOMAIN call.before.components)
        => /\ "threw" \in DOMAIN call
           /\ "returned" \notin DOMAIN call
           /\ call.threw = <<"Component named ", call.name, " already exists">>
           /\ ecs.components[call.name] = call.before.components[call.name]
           /\ ecs = call.before

\* Tags, Meta or a user component is defined again while it holds entries.
C22_Witness ==
    /\ call.op = "defineComponent"
    /\ call.name \in {"Tags", "Meta", "Tool"}
    /\ Holders(call.before, call.name) # {}
    /\ "threw" \in DOMAIN call

\* The ids a step of createEntity brings to life.
NewlyActive == ecs'.activeEntities \ ecs.activeEntities

\* C23: the id counter starts at 1 and never goes down, also across destroyEntity;
\* every createEntity hands out the counter's value, which no entity was given
\* before, and moves the counter past it: the first id is 1, every later id is
\* strictly larger, and no id is returned twice.
C23_IdsIncreaseAndAreNeverReused ==
    [][ /\ ecs'.nextEntityId >= ecs.nextEntityId
        /\ \A id \in NewlyActive :
            /\ id = ecs.nextEntityId
            /\ id >= 1
            /\ ecs'.nextEntityId > id
            /\ \A earlier \in 1..(ecs.nextEntityId - 1) : earlier < id
            /\ ecs.activeEntities = {} /\ Destroyed = {} => id = 1
        /\ (call' # call /\ call'.op = "createEntity" /\ "returned" \in DOMAIN call')
            => NewlyActive = {call'.returned.value}
      ]_vars

\* createEntity returns 2 after entity 1 was destroyed.
C23_Witness ==
    /\ call.op = "createEntity"
    /\ "returned" \in DOMAIN call
    /\ call.returned.value = 2
    /\ 1 \notin call.before.activeEntities
    /\ call.before.nextEntityId = 2

\* C24: setComponentOnEntity(e, c, v) on a registered component replaces the data
\* wholesale: getEntityComponentData(e, c) then equals v field by field, with no
\* field of the previous data left, and entityHasComponent(e, c) is true.
C24_SetReplacesWholesale ==
    (call.op = "setComponentOnEntity" /\ "returned" \in DOMAIN call) =>
        LET read == getEntityComponentDataCopy(call.entity, call.name)
        IN  /\ read # undefined
            /\ read.value = call.data
            /\ DOMAIN read.value = DOMAIN call.data
            /\ entityHasComponent(call.entity, call.name)

\* The data replaced had a field that the new data does not have.
C24_Witness ==
    /\ call.op = "setComponentOnEntity"
    /\ "returned" \in DOMAIN call
    /\ call.entity \in Holders(call.before, call.name)
    /\ DOMAIN call.before.components[call.name][call.entity] \ DOMAIN call.data # {}

\* The data entity e holds for component c in store E, <<>> (no field) when none.
DataOf(E, c, e) == IF e \in Holders(E, c) THEN E.components[c][e] ELSE <<>>

\* C25: updateComponentData(e, c, partial) shallow-merges: the data of (e, c) then
\* has every field of partial with partial's value and every other field of the
\* previous data with its previous value, and nothing else; with no previous data
\* it is partial alone.
C25_UpdateShallowMerges ==
    (call.op = "updateComponentData" /\ "returned" \in DOMAIN call) =>
        LET old    == DataOf(call.before, call.name, call.entity)
            merged == DataOf(ecs, call.name, call.entity)
        IN  /\ entityHasComponent(call.entity, call.name)
            /\ DOMAIN merged = DOMAIN old \cup DOMAIN call.data
            /\ \A f \in DOMAIN call.data : merged[f] = call.data[f]
            /\ \A f \in DOMAIN old \ DOMAIN call.data : merged[f] = old[f]
            /\ call.entity \notin Holders(call.before, call.name) => merged = call.data

\* {type: 'wrench', size: 1} updated with {size: 2} gives {type: 'wrench', size: 2}.
C25_Witness ==
    /\ call.op = "updateComponentData"
    /\ "returned" \in DOMAIN call
    /\ DataOf(call.before, call.name, call.entity) = [type |-> "wrench", size |-> 1]
    /\ call.data = [size |-> 2]
    /\ DataOf(ecs, call.name, call.entity) = [type |-> "wrench", size |-> 2]

\* =================================================== properties: registry
\* The laws of a list that do not carry the name.
Others(lawList, name) == {l \in Range(lawList) : l.name # name}

\* The invocation is the apply of a law of the list, under the definition it has there.
InvokesLawOf(lawList, inv) ==
    \E l \in Range(lawList) : l.name = inv.law /\ l.apply = inv.apply

\* C26: the registry holds at most one law per name.  ratifyLaw of a name that is
\* present puts the new definition in place of the old one and keeps the other
\* laws; revokeLaw leaves no law of that name and keeps the others; an auction
\* starts from the registry of that moment and invokes only laws of it, each under
\* the definition registered then, so neither a replaced definition nor a revoked
\* law is invoked by an auction started afterwards.
C26_OneLawPerName ==
    [][ /\ \A i, j \in DOMAIN laws' : laws'[i].name = laws'[j].name => i = j
        /\ \A newLaw \in RegistryLaws :
              (regOps' # regOps /\ laws' = ratifyLaw(laws, newLaw)) =>
                  /\ newLaw \in Range(laws')
                  /\ \A l \in Range(laws') : l.name = newLaw.name => l = newLaw
                  /\ Others(laws', newLaw.name) = Others(laws, newLaw.name)
        /\ \A name \in {l.name : l \in RegistryLaws} :
              (regOps' # regOps /\ laws' = revokeLaw(laws, name)) =>
                  /\ \A l \in Range(laws') : l.name # name
                  /\ Others(laws', name) = Others(laws, name)
        /\ \A i \in DOMAIN auctions' \ DOMAIN auctions :
              /\ auctions'[i].registry = laws
              /\ \A n \in DOMAIN auctions'[i].invoked : InvokesLawOf(laws, auctions'[i].invoked[n])
        /\ \A i \in DOMAIN auctions' :
              \A n \in DOMAIN auctions'[i].invoked :
                  InvokesLawOf(auctions'[i].registry, auctions'[i].invoked[n])
      ]_vars

\* Law 'a' was ratified and then ratified again with another apply (two registry
\* calls that left the second definition alone in the registry); the auction that
\* followed invoked the second.
C26_Witness ==
    /\ regOps = 2
    /\ laws = <<lawA2>>
    /\ insertedAt["a"] = 1
    /\ \E i \in DOMAIN auctions :
        /\ auctions[i].registry = laws
        /\ Len(auctions[i].invoked) = 1
        /\ auctions[i].invoked[1].apply = "a2"

\* C27: the bid list of an auction is fixed when the auction starts, from the
\* registry and the store of that moment, and never changes afterwards; whatever
\* ratifyLaw, revokeLaw or store change happens while the auction is suspended, the
\* auction invokes the laws of that list, in the order of that list.
C27_BidListFixedAtStart ==
    [][ /\ \A i \in DOMAIN auctions :
              /\ auctions'[i].bids = auctions[i].bids
              /\ auctions'[i].registry = auctions[i].registry
              /\ Len(auctions'[i].invoked) >= Len(auctions[i].invoked)
              /\ SubSeq(auctions'[i].invoked, 1, Len(auctions[i].invoked)) = auctions[i].invoked
        /\ \A i \in DOMAIN auctions' \ DOMAIN auctions :
              auctions'[i].bids = auctionBids(laws, auctions'[i].intent)
        /\ \A i \in DOMAIN auctions' :
              \A n \in DOMAIN auctions'[i].invoked :
                  /\ auctions'[i].invoked[n].bid = n
                  /\ auctions'[i].invoked[n].law = auctions'[i].bids[n].law.name
                  /\ auctions'[i].invoked[n].apply = auctions'[i].bids[n].law.apply
      ]_vars

\* An auction resumed after the registry had changed and invoked its next bid, a
\* law that the registry of that moment did not hold under that definition.
C27_Witness ==
    \E i \in DOMAIN auctions :
        \E n \in DOMAIN auctions[i].resumed :
            /\ auctions[i].resumed[n] # auctions[i].registry
            /\ Len(auctions[i].invoked) > n
            /\ ~InvokesLawOf(auctions[i].resumed[n], auctions[i].invoked[n + 1])

\* =================================================== properties: commands
\* The commands whose classification has arrived.
Classified == {c \in DOMAIN commands : "intentResponses" \in DOMAIN commands[c]}

\* The narrations emitted for command c, and the auctions run for it.
EmittedFor(c) == {n \in DOMAIN emitted : emitted[n].command = c}
AuctionsFor(c) == {i \in DOMAIN auctions : auctions[i].command = c}

\* The classifier's answer is empty, or one of its elements is below the confidence
\* threshold or not valid.
Rejectable(intentResponses) ==
    \/ Len(intentResponses) = 0
    \/ \E i \in DOMAIN intentResponses :
            intentResponses[i].confidence < 7 \/ ~intentResponses[i].valid

\* C28: for an empty classification, or one with an element below the threshold or
\* not valid, handleCommand emits exactly one 'engine.unknown_command' narration and
\* runs no auction, hence invokes no law.
C28_UnknownCommandNarratedOnce ==
    \A c \in Classified :
        Rejectable(commands[c].intentResponses) =>
            /\ Cardinality(EmittedFor(c)) = 1
            /\ \A n \in EmittedFor(c) :
                    emitted[n].stream = "narrate" /\ emitted[n].key = "engine.unknown_command"
            /\ AuctionsFor(c) = {}

\* A law bidding on 'fix' is registered and the command was classified as a valid
\* 'fix' followed by a low-confidence element.
C28_Witness ==
    /\ \E l \in Range(laws) : includes(l.intents, "fix") /\ calculateBid(l, fixIntent) # null
    /\ \E c \in Classified :
        /\ commands[c].intentResponses = <<response(fixIntent), rLow>>
        /\ commands[c].pc = "done"
        /\ Cardinality(EmittedFor(c)) = 1

\* C29: when an element of the classification has no intent, the command gets the
\* unknown-command narration and no auction runs for it, not even for the elements
\* before the one without intent.
C29_MissingIntentRunsNoAuction ==
    \A c \in Classified :
        (\E i \in DOMAIN commands[c].intentResponses :
                "intent" \notin DOMAIN commands[c].intentResponses[i])
            => /\ Cardinality(EmittedFor(c)) = 1
               /\ AuctionsFor(c) = {}

\* The auctions of command c in the order they were started.
RECURSIVE Ascending(_)
Ascending(S) ==
    IF S = {} THEN <<>>
    ELSE LET least == CHOOSE x \in S : \A y \in S : x <= y
         IN  <<least>> \o Ascending(S \ {least})

\* C30: the intents of a compound command are auctioned one after the other in list
\* order: a later intent is auctioned only once the auction of the one before it has
\* returned, and not at all if that auction ended REJECTED.
C30_CompoundStopsAtRejection ==
    /\ \A c \in Classified :
          LET mine == Ascending(AuctionsFor(c))
          IN  /\ Len(mine) <= Len(commands[c].intentResponses)
              /\ \A k \in DOMAIN mine :
                    auctions[mine[k]].intent = commands[c].intentResponses[k].intent
    /\ \A i, j \in DOMAIN auctions :
          (i < j /\ auctions[i].command = auctions[j].command) =>
              /\ auctions[i].state = "returned"
              /\ Rejections(auctions[i]) = {}

\* =========================================================== the law context
\* The lists of an auction are as #auctionIntent received them: no law has altered one.
Untouched(auction) == auction.arrays = auxArrays(auction.intent, auction.bids)

\* Field f of record r, or undefined when r has no such field.
FieldOf(r, f) == IF f \in DOMAIN r THEN [value |-> r[f]] ELSE undefined

ProbedMatcher == probe.law.matchers[1]

\* #calculateBid was called with an intent that names auxiliaries, for a law whose
\* matcher has auxiliary concerns, and returned a bid.
AuxiliariesScored ==
    /\ probe # NoProbe
    /\ probe.bid # null
    /\ "auxiliary" \in DOMAIN probe.intent
    /\ "auxiliary" \in DOMAIN ProbedMatcher
    /\ Len(ProbedMatcher.auxiliary) # 0
    /\ Len(probe.intent.auxiliary) # 0

\* C32: when the player's original order of the auxiliaries reaches the highest
\* specificity that any ordering reaches for the law, the list handed to the law
\* (reorderedAuxiliaries) is the original order.
C32_TieGoesToUserOrder ==
    AuxiliariesScored =>
        LET original == permutationScore(probe.intent.auxiliary, ProbedMatcher.auxiliary)
        IN  (/\ original > 0
             /\ \A p \in Reorderings(probe.intent.auxiliary) :
                    permutationScore(p, ProbedMatcher.auxiliary) <= original)
                => probe.bid.reorderedAuxiliaries = probe.intent.auxiliary

\* #calculateBid was called with an intent that names an actor, for a law whose
\* matcher has an actor concern.
ActorScored ==
    /\ probe # NoProbe
    /\ "actor" \in DOMAIN probe.intent
    /\ "actor" \in DOMAIN ProbedMatcher

\* A props entry of the form ComponentName.fieldName.
WellFormed(entry) ==
    /\ Len(entry.prop) = 3
    /\ entry.prop[2] = "."
    /\ entry.prop[1] # "."
    /\ entry.prop[3] # "."

\* The entries of a props list that the scoring skips.
Skipped(props) ==
    { i \in DOMAIN props : ~WellFormed(props[i]) \/ props[i].prop[1] \notin DOMAIN ecs.components }

\* The entries of a props list that are not skipped and whose field the entity holds
\* with the value asked for.
Counted(entity, props) ==
    { i \in DOMAIN props \ Skipped(props) :
        LET data == getEntityComponentData(entity, props[i].prop[1])
        IN  /\ data # undefined
            /\ props[i].prop[3] \in DOMAIN data
            /\ data[props[i].prop[3]] = props[i].value }

\* The concern without its props field.
WithoutProps(concern) == [f \in DOMAIN concern \ {"props"} |-> concern[f]]

\* C33: a props entry that is not of the form ComponentName.fieldName, or that names an
\* unregistered component, is skipped without throwing: the concern gets a score (a
\* number or DISQUALIFIED), the call returns, and when the concern is not disqualified
\* its score is what the other categories give plus the props price for each entry
\* that is not skipped and matches, so a skipped entry adds nothing.
C33_SkippedPropsAddNothing ==
    (ActorScored /\ "props" \in DOMAIN ProbedMatcher.actor) =>
        LET concern == ProbedMatcher.actor
            entity == probe.intent.actor
            score == probe.locals[1].actorScore
        IN  /\ score \in Int
            /\ probe.bid = null \/ probe.bid.score = score
            /\ score # DISQUALIFIED =>
                    score = calculateConcernSpecificity(entity, WithoutProps(concern))
                            + biddingPropsMatchPrice * Cardinality(Counted(entity, concern.props))

\* A concern with a skipped entry beside a matching one was scored, at the price of
\* the matching one, and the bid was returned; Tool is registered by then.
C33_Witness ==
    /\ ActorScored
    /\ "props" \in DOMAIN ProbedMatcher.actor
    /\ Skipped(ProbedMatcher.actor.props) # {}
    /\ \E i \in Skipped(ProbedMatcher.actor.props) : ~WellFormed(ProbedMatcher.actor.props[i])
    /\ Counted(probe.intent.actor, ProbedMatcher.actor.props) # {}
    /\ probe.bid # null
    /\ probe.bid.score = biddingPropsMatchPrice

\* C35: a matcher's actor score is 0 when the intent names no actor or the matcher has
\* no actor concern, and likewise its target score; a side scored 0 in this way does
\* not drop the matcher: it is dropped only for a side that was scored below 0, and a
\* matcher that is not dropped gives the bid.
C35_AbsentSideScoresZero ==
    probe # NoProbe =>
        LET locals == probe.locals[1]
            absent(side) == side \notin DOMAIN probe.intent \/ side \notin DOMAIN ProbedMatcher
        IN  /\ absent("actor") => locals.actorScore = 0
            /\ absent("target") => locals.targetScore = 0
            /\ locals.dropped =>
                    \/ ~absent("actor") /\ locals.actorScore < 0
                    \/ ~absent("target") /\ locals.targetScore < 0
                    \/ locals.auxiliaryScore < 0
            /\ ~locals.dropped =>
                    /\ probe.bid # null
                    /\ probe.bid.score = locals.actorScore + locals.targetScore + locals.auxiliaryScore

\* A matcher with an actor concern that no entity was scored against, the intent
\* naming no actor, gave a bid of score 0.
C35_Witness ==
    /\ probe # NoProbe
    /\ "actor" \notin DOMAIN probe.intent
    /\ "actor" \in DOMAIN ProbedMatcher
    /\ ProbedMatcher.actor = cWrench
    /\ probe.locals[1].actorScore = 0
    /\ probe.bid # null
    /\ probe.bid.score = 0

\* The concern without those of its components, props and tags lists that are empty.
WithoutEmptyLists(concern) ==
    [f \in {g \in DOMAIN concern : g = "ids" \/ concern[g] # <<>>} |-> concern[f]]

\* C38: a concern whose ids list is present but empty is DISQUALIFIED for every
\* entity, whatever its other fields; a present but empty components, props or tags
\* list imposes nothing: the score is that of the concern without the empty list, and
\* a concern of empty lists alone scores 0.
C38_EmptyIdsDisqualifyEmptyListsDoNot ==
    ActorScored =>
        LET concern == ProbedMatcher.actor
            entity == probe.intent.actor
            score == probe.locals[1].actorScore
        IN  /\ ("ids" \in DOMAIN concern /\ concern.ids = <<>>) =>
                    score = DISQUALIFIED /\ probe.bid = null
            /\ "ids" \notin DOMAIN concern =>
                    /\ score = calculateConcernSpecificity(entity, WithoutEmptyLists(concern))
                    /\ DOMAIN WithoutEmptyLists(concern) = {} => score = 0 /\ probe.bid # null

\* A concern with ids: [] and a tag that the actor carries was scored.
C38_Witness ==
    /\ ActorScored
    /\ ProbedMatcher.actor = [ids |-> <<>>, tags |-> <<"wrench">>]
    /\ entityHasTag(probe.intent.actor, "wrench")
    /\ probe.locals[1].actorScore = DISQUALIFIED

ProbedAuxConcerns ==
    IF "auxiliary" \in DOMAIN ProbedMatcher THEN ProbedMatcher.auxiliary ELSE <<>>

\* The number of positions that have both a concern and an auxiliary entity.
SharedPositions ==
    IF Len(ProbedAuxConcerns) <= Len(probe.intent.auxiliary)
    THEN Len(ProbedAuxConcerns) ELSE Len(probe.intent.auxiliary)

\* C40: auxiliary concerns are matched positionally up to the shorter of the two
\* lists.  The auxiliary score is the one the matcher would get with its concern list
\* cut to the number of auxiliaries (a concern without an entity adds nothing and does
\* not disqualify); a score above 0 is the sum over the first positions of the ordering
\* handed on, one per concern, whatever stands behind them; and the ordering handed on
\* is a reordering of the whole intent.auxiliary list, the list itself when the
\* matcher has no auxiliary concerns.
C40_PositionalUpToShorter ==
    (probe # NoProbe /\ "auxiliary" \in DOMAIN probe.intent) =>
        LET auxiliary == probe.intent.auxiliary
            cut == SubSeq(ProbedAuxConcerns, 1, SharedPositions)
            score == probe.locals[1].auxiliaryScore
        IN  /\ score = auxiliaryResult(probe.intent, [auxiliary |-> cut]).score
            /\ probe.bid # null =>
                LET handed == probe.bid.reorderedAuxiliaries
                IN  /\ handed \in Reorderings(auxiliary)
                    /\ ProbedAuxConcerns = <<>> => handed = auxiliary
                    /\ score > 0 =>
                            score = SeqSum([k \in 1..SharedPositions |->
                                        calculateConcernSpecificity(handed[k], cut[k])])

\* More concerns than auxiliaries were scored, the auxiliaries fitting the first ones:
\* a bid came back, with a score above 0 and the whole list.
C40_Witness ==
    /\ AuxiliariesScored
    /\ probe.bid # null
    /\ probe.locals[1].auxiliaryScore > 0
    /\ Len(ProbedAuxConcerns) > Len(probe.intent.auxiliary)
    /\ Len(probe.bid.reorderedAuxiliaries) = Len(probe.intent.auxiliary)

\* C36: whatever a law does to the auxiliary or originalAuxiliaries list of its own
\* context, every law invoked later in the same auction still receives the player's
\* original order as originalAuxiliaries and its own bid's ordering as auxiliary.
C36_ContextReadOnlyForOtherLaws ==
    \A a \in DOMAIN auctions :
        \A n \in DOMAIN auctions[a].invoked :
            LET intent == auctions[a].intent
                bid == auctions[a].bids[auctions[a].invoked[n].bid]
                ctx == auctions[a].invoked[n].ctx
            IN  /\ FieldOf(ctx, "originalAuxiliaries") = FieldOf(intent, "auxiliary")
                /\ FieldOf(ctx, "auxiliary") = FieldOf(bid, "reorderedAuxiliaries")

\* ============================================== the caller's object after set
\* C37: after setComponentOnEntity(e, c, v), assigning a field of the object v that
\* the caller still holds does not change what getEntityComponentData(e, c) returns:
\* it is still the data that was set.
C37_SetDataIsolatedFromCaller ==
    call.op = "data.assign" =>
        /\ getEntityComponentDataCopy(call.entity, call.name).value = call.data
        /\ ecs = call.before

\* ================================================= applies and termination
\* The auction is suspended in an apply that never resolves: it has not returned
\* and the invocation of that law is its last.
Stalled(a) ==
    /\ a \in DOMAIN auctions
    /\ auctions[a].state = "awaiting"
    /\ auctions[a].invoked # <<>>
    /\ LET last == [auction |-> a, bid |-> auctions[a].invoked[Len(auctions[a].invoked)].bid]
       IN  last \in promises /\ Hangs(last)

Returned(a) == a \in DOMAIN auctions /\ auctions[a].state = "returned"

\* No bid of the auction has had its law invoked twice.
InvokedAtMostOnce(a) ==
    a \in DOMAIN auctions =>
        \A m, n \in DOMAIN auctions[a].invoked :
            auctions[a].invoked[m].bid = auctions[a].invoked[n].bid => m = n

\* The auction has invoked an apply that never resolves.
InvokedNever(a) ==
    /\ a \in DOMAIN auctions
    /\ \E n \in DOMAIN auctions[a].invoked : auctions[a].invoked[n].apply = "never"

\* C34: an auction whose invoked applies all resolve returns in the end, and no
\* auction invokes the law of a bid more than once; an auction that has invoked an
\* apply that never resolves stays suspended in it for ever: it does not return and
\* the invocation of that law remains its last.
C34_ReturnsIfAppliesResolve ==
    \A a \in 1..MaxCommands :
        /\ []InvokedAtMostOnce(a)
        /\ [](a \in DOMAIN auctions => <>(Returned(a) \/ InvokedNever(a)))
        /\ [](InvokedNever(a) => []Stalled(a))

\* An auction has returned after the applies of both its bids resolved, none of them
\* REJECTED or COMPLETED.
C34_Witness ==
    \E a \in DOMAIN auctions :
        /\ Returned(a)
        /\ Len(auctions[a].bids) = 2
        /\ Len(auctions[a].returned) = 2
        /\ InvokedAtMostOnce(a)

====
